---- MODULE Spec2Model ----
(***************************************************************************)
(* Model of the data-mapping layer of terraform-provider-ziti:             *)
(* internal/provider/utils.go and the host.v1 config binding in            *)
(* internal/provider/resource_ziti_host_config.go.                         *)
(*                                                                         *)
(* Go values are tagged records, one field name per kind, so that values   *)
(* of different kinds are never compared field by field:                   *)
(*   string  [k |-> "string", s |-> "a"]    int32 [k |-> "int32", n |-> 0] *)
(*   int     [k |-> "int", n |-> 0]         bool  [k |-> "bool", b |-> ..] *)
(*   nil pointer [k |-> "nilptr"]           pointer [k |-> "ptr", elem]    *)
(*   slice   [k |-> "slice", isnil, elems]  struct [k |-> "struct", name,  *)
(*   f: field name -> value]                nil interface [k |-> "nil"]    *)
(*   map[string]interface{}  [k |-> "map", m: key -> value]                *)
(***************************************************************************)
EXTENDS Integers, Sequences, FiniteSets, TLC

VARIABLES
    pc,     \* position of the call being modelled
    arg,    \* the arguments of the call
    ret,    \* what the first operation returned
    ret2,   \* what the second operation of a composition returned
    controller,  \* the config the controller stores for the resource
    state   \* the resource's state as the provider last saved it

vars == <<pc, arg, ret, ret2, controller, state>>

None == [k |-> "none"]

(***************************************************************************)
(* Go values                                                               *)
(***************************************************************************)
VStr(s) == [k |-> "string", s |-> s]
VInt32(n) == [k |-> "int32", n |-> n]
VInt(n) == [k |-> "int", n |-> n]
VBool(b) == [k |-> "bool", b |-> b]
VNil == [k |-> "nil"]
NilPtr == [k |-> "nilptr"]
Ptr(v) == [k |-> "ptr", elem |-> v]
NilSlice == [k |-> "slice", isnil |-> TRUE, elems |-> <<>>]
VSlice(elems) == [k |-> "slice", isnil |-> FALSE, elems |-> elems]
VStruct(name, f) == [k |-> "struct", name |-> name, f |-> f]
VMap(m) == [k |-> "map", m |-> m]
VChan == [k |-> "chan"]
Opaque == [k |-> "opaque"]
EmptyMap == <<>>

(***************************************************************************)
(* Go types                                                                *)
(***************************************************************************)
TString == [k |-> "string"]
TInt32 == [k |-> "int32"]
TInt == [k |-> "int"]
TBool == [k |-> "bool"]
TOpaque == [k |-> "opaque"]
TPtr(t) == [k |-> "ptr", elem |-> t]
TSlice(t) == [k |-> "slice", elem |-> t]
TStruct(name) == [k |-> "struct", name |-> name]

Fld(name, tag, type) == [name |-> name, tag |-> tag, type |-> type]

\* The struct declarations: field name, json tag, type, in declaration order.
TestStructFields ==
    << Fld("Name", "name", TString),
       Fld("Age", "age", TInt),
       Fld("IsEmployed", "is_employed", TBool),
       Fld("Address", "address,omitempty", TPtr(TString)) >>

HostConfigAllowedPortsDTOFields ==
    << Fld("Low", "low,omitempty", TInt32),
       Fld("High", "high,omitempty", TInt32) >>

ListenOptionsDTOFields ==
    << Fld("BindUsingEdgeIdentity", "bindUsingEdgeIdentity,omitempty", TPtr(TBool)),
       Fld("ConnectTimeout", "connectTimeout,omitempty", TPtr(TString)),
       Fld("Cost", "cost,omitempty", TPtr(TInt32)),
       Fld("MaxConnections", "maxConnections,omitempty", TPtr(TInt32)),
       Fld("Precedence", "precedence,omitempty", TPtr(TString)) >>

CheckActionDTOFields ==
    << Fld("Trigger", "trigger", TPtr(TString)),
       Fld("Duration", "duration", TPtr(TString)),
       Fld("ConsecutiveEvents", "consecutiveEvents,omitempty", TPtr(TInt32)),
       Fld("Action", "action", TPtr(TString)) >>

HTTPCheckDTOFields ==
    << Fld("Url", "url", TPtr(TString)),
       Fld("Method", "method", TPtr(TString)),
       Fld("Body", "body,omitempty", TPtr(TString)),
       Fld("ExpectStatus", "expectStatus,omitempty", TPtr(TInt32)),
       Fld("ExpectInBody", "expectInBody,omitempty", TPtr(TString)),
       Fld("Interval", "interval", TPtr(TString)),
       Fld("Timeout", "timeout", TPtr(TString)),
       Fld("Actions", "actions", TPtr(TSlice(TStruct("CheckActionDTO")))) >>

PortCheckDTOFields ==
    << Fld("Address", "address", TPtr(TString)),
       Fld("Interval", "interval", TPtr(TString)),
       Fld("Timeout", "timeout", TPtr(TString)),
       Fld("Actions", "actions", TPtr(TSlice(TStruct("CheckActionDTO")))) >>

HostConfigDTOFields ==
    << Fld("Address", "address,omitempty", TPtr(TString)),
       Fld("Port", "port,omitempty", TPtr(TInt32)),
       Fld("Protocol", "protocol,omitempty", TPtr(TString)),
       Fld("ForwardProtocol", "forwardProtocol,omitempty", TPtr(TBool)),
       Fld("ForwardPort", "forwardPort,omitempty", TPtr(TBool)),
       Fld("ForwardAddress", "forwardAddress,omitempty", TPtr(TBool)),
       Fld("AllowedProtocols", "allowedProtocols,omitempty", TPtr(TSlice(TString))),
       Fld("AllowedAddresses", "allowedAddresses,omitempty", TPtr(TSlice(TString))),
       Fld("AllowedSourceAddresses", "allowedSourceAddresses,omitempty", TPtr(TSlice(TString))),
       Fld("AllowedPortRanges", "allowedPortRanges,omitempty",
           TPtr(TSlice(TStruct("HostConfigAllowedPortsDTO")))),
       Fld("ListenOptions", "listenOptions,omitempty", TPtr(TStruct("ListenOptionsDTO"))),
       Fld("HTTPChecks", "httpChecks,omitempty", TPtr(TSlice(TStruct("HTTPCheckDTO")))),
       Fld("PortChecks", "portChecks,omitempty", TPtr(TSlice(TStruct("PortCheckDTO")))) >>

\* The resource model carries tfsdk tags only: none of its fields has a json tag.
ZitiHostConfigResourceModelFields ==
    << Fld("Name", "", TOpaque), Fld("Address", "", TOpaque),
       Fld("ConfigTypeId", "", TOpaque), Fld("Port", "", TOpaque),
       Fld("Protocol", "", TOpaque), Fld("ForwardProtocol", "", TOpaque),
       Fld("ForwardPort", "", TOpaque), Fld("ForwardAddress", "", TOpaque),
       Fld("AllowedProtocols", "", TOpaque), Fld("AllowedAddresses", "", TOpaque),
       Fld("AllowedSourceAddresses", "", TOpaque), Fld("AllowedPortRanges", "", TOpaque),
       Fld("ListenOptions", "", TOpaque), Fld("PortChecks", "", TOpaque),
       Fld("HTTPChecks", "", TOpaque), Fld("ID", "", TOpaque) >>

StructFields(name) ==
    CASE name = "TestStruct" -> TestStructFields
      [] name = "HostConfigAllowedPortsDTO" -> HostConfigAllowedPortsDTOFields
      [] name = "ListenOptionsDTO" -> ListenOptionsDTOFields
      [] name = "CheckActionDTO" -> CheckActionDTOFields
      [] name = "HTTPCheckDTO" -> HTTPCheckDTOFields
      [] name = "PortCheckDTO" -> PortCheckDTOFields
      [] name = "HostConfigDTO" -> HostConfigDTOFields
      [] name = "ZitiHostConfigResourceModel" -> ZitiHostConfigResourceModelFields

FieldNames(name) == { StructFields(name)[i].name : i \in 1..Len(StructFields(name)) }

(***************************************************************************)
(* Strings are read character by character, as the Go code reads bytes.    *)
(***************************************************************************)
CharAt(s, i) == SubSeq(s, i, i)

RECURSIVE IndexFrom(_, _, _)
\* The first position >= i of character c in s, or 0.
IndexFrom(s, c, i) ==
    IF i > Len(s) THEN 0
    ELSE IF CharAt(s, i) = c THEN i
    ELSE IndexFrom(s, c, i + 1)

\* Variant of the key extraction that keeps the tag options in the key.
TagKeyWithOptions(jsonTag) == jsonTag

\* strings.Split(jsonTag, ",")[0]
TagKey(jsonTag) ==
    LET c == IndexFrom(jsonTag, ",", 1)
    IN IF c = 0 THEN jsonTag ELSE SubSeq(jsonTag, 1, c - 1)

(***************************************************************************)
(* JsonStructToObject (utils.go)                                           *)
(***************************************************************************)
RECURSIVE ReflectIsZero(_)
\* reflect.Value.IsZero
ReflectIsZero(v) ==
    CASE v.k = "string" -> v.s = ""
      [] v.k = "int32" -> v.n = 0
      [] v.k = "int" -> v.n = 0
      [] v.k = "bool" -> v.b = FALSE
      [] v.k = "nilptr" -> TRUE
      [] v.k = "ptr" -> FALSE
      [] v.k = "slice" -> v.isnil
      [] v.k = "struct" -> \A fn \in DOMAIN v.f : ReflectIsZero(v.f[fn])
      [] v.k = "nil" -> TRUE
      [] OTHER -> FALSE

\* reflect.Value.Kind of a value; a nil interface has the Invalid kind.
Kind(v) ==
    CASE v.k = "nilptr" -> "ptr"
      [] v.k = "nil" -> "invalid"
      [] OTHER -> v.k

\* reflect.Value.Elem of a pointer: the zero Value (Invalid kind) when it is nil.
Elem(v) == IF v.k = "ptr" THEN v.elem ELSE VNil

\* Variant of isEmptyValue without the exemption of reflect.Int32.
IsEmptyValueAnyKind(field) == ReflectIsZero(field)

\* isEmptyValue := field.IsZero() && field.Kind() != reflect.Int32
IsEmptyValue(field) == ReflectIsZero(field) /\ Kind(field) # "int32"

\* isEmptySlice := field.Kind() == reflect.Slice && field.Len() == 0
IsEmptySlice(field) == Kind(field) = "slice" /\ Len(field.elems) = 0

\* Variant of the omission test without the isEmptySlice disjunct.
OmitOnlyEmptyValue(ignoreZero, field) == ignoreZero /\ IsEmptyValue(field)

\* if ignoreZero && (isEmptyValue || isEmptySlice) { continue }
OmitZero(ignoreZero, field) == ignoreZero /\ (IsEmptyValue(field) \/ IsEmptySlice(field))

\* Variant of the nil-pointer test that never skips the field.
OmitNilPointerNever(ignoreZero) == FALSE

\* if field.IsNil() { if ignoreZero { continue } ... }
OmitNilPointer(ignoreZero) == ignoreZero

\* Variant of the collapse test that never replaces a value by nil.
CollapseNever(makeZeroNil, field) == FALSE

\* if makeZeroNil && isEmptyValue / isEmptySlice { fieldValue = nil }
CollapseToNil(makeZeroNil, field) ==
    makeZeroNil /\ (IsEmptyValue(field) \/ IsEmptySlice(field))

IsNestedStruct(field) ==
    Kind(field) = "struct" \/ (Kind(field) = "ptr" /\ Kind(Elem(field)) = "struct")

\* if val.Kind() != reflect.Struct { return nil, fmt.Errorf(...) }
IsStructInput(val) == Kind(val) = "struct"

RECURSIVE JsonStructToObject(_, _, _)
RECURSIVE JsonStructFieldLoop(_, _, _, _, _)

\* The body of the loop over the fields, from field i on, with the result so far.
\* Returns [err, res]: res is the map, or the nil map with an error.
JsonStructFieldLoop(val, i, makeZeroNil, ignoreZero, result) ==
    IF i > Len(StructFields(val.name)) THEN [err |-> FALSE, res |-> VMap(result)]
    ELSE
    LET fieldType == StructFields(val.name)[i]
        declared == val.f[fieldType.name]
        key == TagKey(fieldType.tag)
        field == IF Kind(declared) = "ptr" THEN Elem(declared) ELSE declared
        nested == JsonStructToObject(field, makeZeroNil, ignoreZero)
        fieldValue == IF IsNestedStruct(field) THEN nested.res
                      ELSE IF CollapseToNil(makeZeroNil, field) THEN VNil
                      ELSE field
    IN  IF fieldType.tag = "" THEN
            JsonStructFieldLoop(val, i + 1, makeZeroNil, ignoreZero, result)
        ELSE IF declared.k = "nilptr" THEN
            IF OmitNilPointer(ignoreZero)
            THEN JsonStructFieldLoop(val, i + 1, makeZeroNil, ignoreZero, result)
            ELSE JsonStructFieldLoop(val, i + 1, makeZeroNil, ignoreZero,
                                     (key :> VNil) @@ result)
        ELSE IF OmitZero(ignoreZero, field) THEN
            JsonStructFieldLoop(val, i + 1, makeZeroNil, ignoreZero, result)
        ELSE IF IsNestedStruct(field) /\ nested.err THEN
            [err |-> TRUE, res |-> VNil]
        ELSE
            JsonStructFieldLoop(val, i + 1, makeZeroNil, ignoreZero,
                                (key :> fieldValue) @@ result)

\* Variant without the kind check: any other input yields an empty map.
JsonStructToObjectNoKindCheck(s, makeZeroNil, ignoreZero) ==
    LET val == IF Kind(s) = "ptr" THEN Elem(s) ELSE s
    IN  IF Kind(val) # "struct" THEN [err |-> FALSE, res |-> VMap(EmptyMap)]
        ELSE JsonStructFieldLoop(val, 1, makeZeroNil, ignoreZero, EmptyMap)

JsonStructToObject(s, makeZeroNil, ignoreZero) ==
    LET val == IF Kind(s) = "ptr" THEN Elem(s) ELSE s
    IN  IF ~IsStructInput(val) THEN [err |-> TRUE, res |-> VNil]
        ELSE JsonStructFieldLoop(val, 1, makeZeroNil, ignoreZero, EmptyMap)

(***************************************************************************)
(* encoding/json, as GenericFromObject uses it.  JSON documents:           *)
(*   [j |-> "null"], [j |-> "bool", b], [j |-> "number", n, frac],         *)
(*   [j |-> "string", s], [j |-> "array", a], [j |-> "object", o]          *)
(* A number is the integer n, or n plus a fraction when frac is TRUE.      *)
(***************************************************************************)
JNull == [j |-> "null"]
JBool(b) == [j |-> "bool", b |-> b]
JNum(n) == [j |-> "number", n |-> n, frac |-> FALSE, wide |-> FALSE]
JFrac(n) == [j |-> "number", n |-> n, frac |-> TRUE, wide |-> FALSE]
\* The integer literal of n * 2^32, n # 0: a number outside the int32 range.
JWide(n) == [j |-> "number", n |-> n, frac |-> FALSE, wide |-> TRUE]
JStr(s) == [j |-> "string", s |-> s]
JArr(a) == [j |-> "array", a |-> a]
JObj(o) == [j |-> "object", o |-> o]

VFloat64(n, frac) == [k |-> "float64", n |-> n, frac |-> frac]
\* An integer of a 64-bit kind holding n * 2^32, n # 0.
VWide(n) == [k |-> "wide", n |-> n]

\* Strings that are not valid UTF-8 are written with this token in place of
\* the offending bytes; json.Marshal replaces them by U+FFFD.
InvalidUTF8 == {"<ff>"}
CoerceUTF8(s) == IF s \in InvalidUTF8 THEN "<fffd>" ELSE s

\* encoding/json's reading of a struct tag: the name before the first comma.
JsonFieldName(jsonTag) ==
    LET c == IndexFrom(jsonTag, ",", 1)
    IN IF c = 0 THEN jsonTag ELSE SubSeq(jsonTag, 1, c - 1)

\* The options of a json tag hold omitempty.
TagOmitEmpty(jsonTag) ==
    LET c == IndexFrom(jsonTag, ",", 1)
    IN c # 0 /\ SubSeq(jsonTag, c + 1, Len(jsonTag)) = "omitempty"

\* encoding/json's isEmptyValue: what omitempty leaves out.
JsonIsEmptyValue(v) ==
    CASE v.k = "string" -> v.s = ""
      [] v.k = "int32" -> v.n = 0
      [] v.k = "int" -> v.n = 0
      [] v.k = "bool" -> v.b = FALSE
      [] v.k = "nilptr" -> TRUE
      [] v.k = "nil" -> TRUE
      [] v.k = "slice" -> Len(v.elems) = 0
      [] v.k = "map" -> DOMAIN v.m = {}
      [] OTHER -> FALSE

RECURSIVE Marshalable(_)
\* json.Marshal returns an UnsupportedTypeError for a channel (or function).
Marshalable(v) ==
    CASE v.k = "chan" -> FALSE
      [] v.k = "ptr" -> Marshalable(v.elem)
      [] v.k = "slice" -> \A i \in 1..Len(v.elems) : Marshalable(v.elems[i])
      [] v.k = "struct" -> \A fn \in DOMAIN v.f : Marshalable(v.f[fn])
      [] v.k = "map" -> \A key \in DOMAIN v.m : Marshalable(v.m[key])
      [] OTHER -> TRUE

RECURSIVE Marshal(_)
Marshal(v) ==
    CASE v.k = "nil" -> JNull
      [] v.k = "nilptr" -> JNull
      [] v.k = "string" -> JStr(CoerceUTF8(v.s))
      [] v.k = "int32" -> JNum(v.n)
      [] v.k = "int" -> JNum(v.n)
      [] v.k = "float64" -> IF v.frac THEN JFrac(v.n) ELSE JNum(v.n)
      [] v.k = "wide" -> JWide(v.n)
      [] v.k = "bool" -> JBool(v.b)
      [] v.k = "ptr" -> Marshal(v.elem)
      [] v.k = "slice" ->
            IF v.isnil THEN JNull
            ELSE JArr([i \in 1..Len(v.elems) |-> Marshal(v.elems[i])])
      [] v.k = "map" -> JObj([key \in DOMAIN v.m |-> Marshal(v.m[key])])
      [] v.k = "struct" ->
            LET fields == StructFields(v.name)
                kept == { i \in 1..Len(fields) :
                            ~(TagOmitEmpty(fields[i].tag)
                              /\ JsonIsEmptyValue(v.f[fields[i].name])) }
                keyOf(i) == IF JsonFieldName(fields[i].tag) = "" THEN fields[i].name
                            ELSE JsonFieldName(fields[i].tag)
                at(key) == CHOOSE i \in kept : keyOf(i) = key
            IN JObj([key \in { keyOf(i) : i \in kept } |->
                        Marshal(v.f[fields[at(key)].name])])

FieldType(name, fn) ==
    (CHOOSE fd \in { StructFields(name)[i] : i \in 1..Len(StructFields(name)) } :
        fd.name = fn).type

RECURSIVE ZeroOf(_)
\* The zero value of a type: what `var dto T` holds.
ZeroOf(t) ==
    CASE t.k = "string" -> VStr("")
      [] t.k = "int32" -> VInt32(0)
      [] t.k = "int" -> VInt(0)
      [] t.k = "bool" -> VBool(FALSE)
      [] t.k = "ptr" -> NilPtr
      [] t.k = "slice" -> NilSlice
      [] t.k = "opaque" -> Opaque
      [] t.k = "struct" ->
            VStruct(t.name, [fn \in FieldNames(t.name) |-> ZeroOf(FieldType(t.name, fn))])

LowerOf ==
    [A |-> "a", B |-> "b", C |-> "c", D |-> "d", E |-> "e", F |-> "f", G |-> "g",
     H |-> "h", I |-> "i", J |-> "j", K |-> "k", L |-> "l", M |-> "m", N |-> "n",
     O |-> "o", P |-> "p", Q |-> "q", R |-> "r", S |-> "s", T |-> "t", U |-> "u",
     V |-> "v", W |-> "w", X |-> "x", Y |-> "y", Z |-> "z"]
UpperOf ==
    [a |-> "A", b |-> "B", c |-> "C", d |-> "D", e |-> "E", f |-> "F", g |-> "G",
     h |-> "H", i |-> "I", j |-> "J", k |-> "K", l |-> "L", m |-> "M", n |-> "N",
     o |-> "O", p |-> "P", q |-> "Q", r |-> "R", s |-> "S", t |-> "T", u |-> "U",
     v |-> "V", w |-> "W", x |-> "X", y |-> "Y", z |-> "Z"]
DigitChars == {"0", "1", "2", "3", "4", "5", "6", "7", "8", "9"}
IsCap(c) == c \in DOMAIN LowerOf
IsLow(c) == c \in DOMAIN UpperOf
IsNum(c) == c \in DigitChars
ToLowerChar(c) == IF IsCap(c) THEN LowerOf[c] ELSE c
ToUpperChar(c) == IF IsLow(c) THEN UpperOf[c] ELSE c

RECURSIVE ToLowerStr(_)
ToLowerStr(s) ==
    IF Len(s) = 0 THEN s
    ELSE ToLowerChar(CharAt(s, 1)) \o ToLowerStr(SubSeq(s, 2, Len(s)))

\* The keys of a JSON object that the decoder routes to the field of this
\* name: the keys equal to it under case folding (no two fields of one struct
\* type of the repository have names equal under folding).
MatchingKeys(o, key) ==
    { x \in DOMAIN o : Len(x) = Len(key) /\ ToLowerStr(x) = ToLowerStr(key) }

\* json.Marshal writes the keys of a map in byte order; of two keys equal
\* under case folding the one with the capital at the first difference is first.
KeyBefore(x, y) ==
    LET d == { i \in 1..Len(x) : CharAt(x, i) # CharAt(y, i) }
    IN d # {} /\ IsCap(CharAt(x, CHOOSE i \in d : \A k \in d : i <= k))

\* Variant of the int32 decoder that skips a value of another type silently.
DecodeIntCoercing(j, cur) ==
    IF j.j = "number" THEN [err |-> FALSE, v |-> VInt32(j.n)]
    ELSE [err |-> FALSE, v |-> cur]

\* A JSON number into an int32: only an integer literal within its range.
DecodeInt32(j, cur) ==
    IF j.j = "number" /\ ~j.frac /\ ~j.wide
    THEN [err |-> FALSE, v |-> VInt32(j.n)]
    ELSE [err |-> TRUE, v |-> cur]

\* A JSON null into a pointer or a slice sets it to nil.
DecodeNull(t) == [err |-> FALSE, v |-> ZeroOf(t)]

RECURSIVE Unmarshal(_, _, _)
RECURSIVE DecodeKeysInOrder(_, _, _, _)
\* The values of object o under keys, all routed to one field of type t that
\* holds cur, decoded one after the other in document order.
DecodeKeysInOrder(o, keys, t, cur) ==
    IF keys = {} THEN [err |-> FALSE, v |-> cur]
    ELSE LET first == CHOOSE x \in keys : \A y \in keys \ {x} : KeyBefore(x, y)
             d == Unmarshal(o[first], t, cur)
             rest == DecodeKeysInOrder(o, keys \ {first}, t, d.v)
         IN [err |-> d.err \/ rest.err, v |-> rest.v]

\* json.Unmarshal of document j into a value of type t that holds cur.
\* A type error is recorded and decoding goes on; the value is left as it was.
Unmarshal(j, t, cur) ==
    CASE j.j = "null" ->
            IF t.k \in {"ptr", "slice"} THEN DecodeNull(t)
            ELSE [err |-> FALSE, v |-> cur]
      [] j.j # "null" /\ t.k = "ptr" ->
            LET inner == Unmarshal(j, t.elem,
                                   IF cur.k = "ptr" THEN cur.elem ELSE ZeroOf(t.elem))
            IN [err |-> inner.err, v |-> Ptr(inner.v)]
      [] j.j # "null" /\ t.k = "string" ->
            IF j.j = "string" THEN [err |-> FALSE, v |-> VStr(j.s)]
            ELSE [err |-> TRUE, v |-> cur]
      [] j.j # "null" /\ t.k = "int32" -> DecodeInt32(j, cur)
      [] j.j # "null" /\ t.k = "int" ->
            IF j.j = "number" /\ ~j.frac
            THEN [err |-> FALSE, v |-> IF j.wide THEN VWide(j.n) ELSE VInt(j.n)]
            ELSE [err |-> TRUE, v |-> cur]
      [] j.j # "null" /\ t.k = "bool" ->
            IF j.j = "bool" THEN [err |-> FALSE, v |-> VBool(j.b)]
            ELSE [err |-> TRUE, v |-> cur]
      [] j.j # "null" /\ t.k = "slice" ->
            IF j.j = "array"
            THEN LET each == [i \in 1..Len(j.a) |-> Unmarshal(j.a[i], t.elem, ZeroOf(t.elem))]
                 IN [err |-> \E i \in 1..Len(j.a) : each[i].err,
                     v |-> VSlice([i \in 1..Len(j.a) |-> each[i].v])]
            ELSE [err |-> TRUE, v |-> cur]
      [] j.j # "null" /\ t.k = "struct" ->
            IF j.j = "object"
            THEN LET fields == StructFields(t.name)
                     tagged == { i \in 1..Len(fields) : fields[i].tag # "" }
                     hit == [i \in tagged |-> MatchingKeys(j.o, JsonFieldName(fields[i].tag))]
                     dec == [i \in tagged |->
                               DecodeKeysInOrder(j.o, hit[i], fields[i].type,
                                                 cur.f[fields[i].name])]
                 IN [err |-> \E i \in tagged : dec[i].err,
                     v |-> VStruct(t.name,
                             [fn \in DOMAIN cur.f |->
                                IF \E i \in tagged : fields[i].name = fn
                                THEN dec[CHOOSE i \in tagged : fields[i].name = fn].v
                                ELSE cur.f[fn]])]
            ELSE [err |-> TRUE, v |-> cur]

\* GenericFromObject (utils.go), called with a fresh zero-valued dto of type
\* dtoType: [err, dto] is the error returned and what dto holds afterwards.
Decoded(decoded) == [err |-> decoded.err, dto |-> decoded.v]

GenericFromObject(mapData, dtoType) ==
    IF ~Marshalable(VMap(mapData)) THEN [err |-> TRUE, dto |-> ZeroOf(dtoType)]
    ELSE Decoded(Unmarshal(Marshal(VMap(mapData)), dtoType, ZeroOf(dtoType)))

(***************************************************************************)
(* Bounded inputs: instances of the repository's struct types.             *)
(***************************************************************************)
MaxSliceLen == 2

Seqs(S, n) == UNION { [1..m -> S] : m \in 0..n }

StrPtrs(S) == {NilPtr} \cup { Ptr(VStr(s)) : s \in S }
Int32Ptrs(S) == {NilPtr} \cup { Ptr(VInt32(n)) : n \in S }
BoolPtrs == {NilPtr, Ptr(VBool(FALSE)), Ptr(VBool(TRUE))}
\* A pointer to a slice: nil, to the nil slice, or to a slice of up to n elements.
SlicePtrs(S, n) == {NilPtr, Ptr(NilSlice)} \cup { Ptr(VSlice(e)) : e \in Seqs(S, n) }

TestStructs ==
    { VStruct("TestStruct",
              [Name |-> VStr(n), Age |-> VInt(a), IsEmployed |-> VBool(e), Address |-> ad]) :
        n \in {"", "Alice", "<ff>"}, a \in {0, 25}, e \in BOOLEAN,
        ad \in StrPtrs({"", "123 Main St"}) }

AllowedPortsDTOs ==
    { VStruct("HostConfigAllowedPortsDTO", [Low |-> VInt32(l), High |-> VInt32(h)]) :
        l \in {0, 80, 443}, h \in {0, 80, 443} }

ListenOptionsDTOs ==
    { VStruct("ListenOptionsDTO",
              [BindUsingEdgeIdentity |-> b, ConnectTimeout |-> c, Cost |-> co,
               MaxConnections |-> m, Precedence |-> p]) :
        b \in BoolPtrs, c \in StrPtrs({"", "5s"}), co \in Int32Ptrs({0, 10}),
        m \in Int32Ptrs({0, 65535}), p \in StrPtrs({"default"}) }

CheckActionDTOs ==
    { VStruct("CheckActionDTO",
              [Trigger |-> tr, Duration |-> d, ConsecutiveEvents |-> ce, Action |-> a]) :
        tr \in StrPtrs({"fail"}), d \in StrPtrs({"", "30s"}),
        ce \in Int32Ptrs({0, 2}), a \in StrPtrs({"mark unhealthy"}) }

\* The actions used as elements of a check's actions list.
CheckActionElems ==
    { VStruct("CheckActionDTO",
              [Trigger |-> Ptr(VStr("fail")), Duration |-> Ptr(VStr("30s")),
               ConsecutiveEvents |-> ce, Action |-> Ptr(VStr("mark unhealthy"))]) :
        ce \in {NilPtr, Ptr(VInt32(0))} }

PortCheckDTOs ==
    { VStruct("PortCheckDTO",
              [Address |-> ad, Interval |-> iv, Timeout |-> Ptr(VStr("10s")), Actions |-> ac]) :
        ad \in StrPtrs({"localhost"}), iv \in StrPtrs({"", "5s"}),
        ac \in SlicePtrs(CheckActionElems, MaxSliceLen) }

HTTPCheckDTOs ==
    { VStruct("HTTPCheckDTO",
              [Url |-> Ptr(VStr("https://localhost/health")), Method |-> Ptr(VStr("GET")),
               Body |-> b, ExpectStatus |-> es, ExpectInBody |-> eb,
               Interval |-> Ptr(VStr("5s")), Timeout |-> Ptr(VStr("10s")), Actions |-> ac]) :
        b \in StrPtrs({"", "ping"}), es \in Int32Ptrs({0, 200}), eb \in StrPtrs({"ok"}),
        ac \in SlicePtrs(CheckActionElems, 1) }

ListenOptionsOf(b, co) ==
    VStruct("ListenOptionsDTO",
            [BindUsingEdgeIdentity |-> b, ConnectTimeout |-> NilPtr, Cost |-> co,
             MaxConnections |-> NilPtr, Precedence |-> NilPtr])

PortCheckElem ==
    VStruct("PortCheckDTO",
            [Address |-> Ptr(VStr("localhost")), Interval |-> Ptr(VStr("5s")),
             Timeout |-> Ptr(VStr("10s")),
             Actions |-> Ptr(VSlice(<< CHOOSE a \in CheckActionElems :
                                          a.f.ConsecutiveEvents = NilPtr >>))])

HostConfigDTOs ==
    { VStruct("HostConfigDTO",
              [Address |-> ad, Port |-> po, Protocol |-> NilPtr,
               ForwardProtocol |-> NilPtr, ForwardPort |-> fp, ForwardAddress |-> NilPtr,
               AllowedProtocols |-> ap, AllowedAddresses |-> NilPtr,
               AllowedSourceAddresses |-> NilPtr, AllowedPortRanges |-> apr,
               ListenOptions |-> lo, HTTPChecks |-> NilPtr, PortChecks |-> pcs]) :
        ad \in StrPtrs({"localhost"}), po \in Int32Ptrs({0}),
        fp \in {NilPtr, Ptr(VBool(FALSE))},
        ap \in SlicePtrs({VStr("tcp"), VStr("udp")}, MaxSliceLen),
        apr \in {NilPtr, Ptr(VSlice(<<>>)),
                 Ptr(VSlice(<< VStruct("HostConfigAllowedPortsDTO",
                                       [Low |-> VInt32(80), High |-> VInt32(443)]) >>))},
        lo \in {NilPtr, Ptr(ListenOptionsOf(NilPtr, NilPtr)),
                Ptr(ListenOptionsOf(NilPtr, Ptr(VInt32(0)))),
                Ptr(ListenOptionsOf(Ptr(VBool(FALSE)), NilPtr))},
        pcs \in {NilPtr, Ptr(NilSlice), Ptr(VSlice(<<PortCheckElem>>))} }

ResourceModels ==
    { VStruct("ZitiHostConfigResourceModel",
              [fn \in FieldNames("ZitiHostConfigResourceModel") |-> Opaque]) }

StructInputs ==
    TestStructs \cup AllowedPortsDTOs \cup ListenOptionsDTOs \cup CheckActionDTOs
    \cup PortCheckDTOs \cup HTTPCheckDTOs \cup HostConfigDTOs \cup ResourceModels

\* Inputs that are neither a struct nor a pointer to one.
NonStructInputs ==
    { VStr("not a struct"), VInt(7), VBool(TRUE), VNil, NilPtr, Ptr(VStr("x")),
      Ptr(Ptr(ZeroOf(TStruct("TestStruct")))), NilSlice,
      VSlice(<<ZeroOf(TStruct("TestStruct"))>>), VMap(EmptyMap) }

ReflectInputs ==
    StructInputs \cup { Ptr(s) : s \in TestStructs } \cup NonStructInputs

\* The struct a JsonStructToObject input holds or points to.
Pointee(s) == IF Kind(s) = "ptr" THEN Elem(s) ELSE s

(***************************************************************************)
(* SpecReflect: JsonStructToObject on a bounded input, then                *)
(* GenericFromObject on its result into a fresh value of the same type.    *)
(***************************************************************************)
InitReflect ==
    /\ pc = "start"
    /\ arg \in [s : ReflectInputs, makeZeroNil : BOOLEAN, ignoreZero : BOOLEAN]
    /\ ret = None
    /\ ret2 = None
    /\ controller = None
    /\ state = None

CallJsonStructToObject ==
    /\ pc = "start"
    /\ ret' = JsonStructToObject(arg.s, arg.makeZeroNil, arg.ignoreZero)
    /\ pc' = "mapped"
    /\ UNCHANGED <<arg, ret2, controller, state>>

CallGenericFromObject ==
    /\ pc = "mapped"
    /\ ~ret.err
    /\ Kind(Pointee(arg.s)) = "struct"
    /\ ret2' = GenericFromObject(ret.res.m, TStruct(Pointee(arg.s).name))
    /\ pc' = "decoded"
    /\ UNCHANGED <<arg, ret, controller, state>>

NextReflect == CallJsonStructToObject \/ CallGenericFromObject

SpecReflect == InitReflect /\ [][NextReflect]_vars

(***************************************************************************)
(* Properties of JsonStructToObject and GenericFromObject (SpecReflect)    *)
(***************************************************************************)
\* The wire keys each struct type declares, written out from its tags.
WireKeys(name) ==
    CASE name = "TestStruct" -> {"name", "age", "is_employed", "address"}
      [] name = "HostConfigAllowedPortsDTO" -> {"low", "high"}
      [] name = "ListenOptionsDTO" ->
            {"bindUsingEdgeIdentity", "connectTimeout", "cost", "maxConnections", "precedence"}
      [] name = "CheckActionDTO" -> {"trigger", "duration", "consecutiveEvents", "action"}
      [] name = "HTTPCheckDTO" ->
            {"url", "method", "body", "expectStatus", "expectInBody", "interval", "timeout",
             "actions"}
      [] name = "PortCheckDTO" -> {"address", "interval", "timeout", "actions"}
      [] name = "HostConfigDTO" ->
            {"address", "port", "protocol", "forwardProtocol", "forwardPort", "forwardAddress",
             "allowedProtocols", "allowedAddresses", "allowedSourceAddresses",
             "allowedPortRanges", "listenOptions", "httpChecks", "portChecks"}
      [] name = "ZitiHostConfigResourceModel" -> {}

AllFieldsTagged(name) ==
    \A i \in 1..Len(StructFields(name)) : StructFields(name)[i].tag # ""

IsStructOrPointerToStruct(s) ==
    s.k = "struct" \/ (s.k = "ptr" /\ s.elem.k = "struct")

RECURSIVE HasPtrToNilSlice(_)
HasPtrToNilSlice(v) ==
    CASE v.k = "ptr" -> (v.elem.k = "slice" /\ v.elem.isnil) \/ HasPtrToNilSlice(v.elem)
      [] v.k = "slice" -> \E i \in 1..Len(v.elems) : HasPtrToNilSlice(v.elems[i])
      [] v.k = "struct" -> \E fn \in DOMAIN v.f : HasPtrToNilSlice(v.f[fn])
      [] OTHER -> FALSE

RECURSIVE HasInvalidUTF8(_)
HasInvalidUTF8(v) ==
    CASE v.k = "string" -> v.s \in InvalidUTF8
      [] v.k = "ptr" -> HasInvalidUTF8(v.elem)
      [] v.k = "slice" -> \E i \in 1..Len(v.elems) : HasInvalidUTF8(v.elems[i])
      [] v.k = "struct" -> \E fn \in DOMAIN v.f : HasInvalidUTF8(v.f[fn])
      [] OTHER -> FALSE

RoundTripCase ==
    /\ pc = "decoded"
    /\ ~arg.makeZeroNil
    /\ ~arg.ignoreZero
    /\ AllFieldsTagged(Pointee(arg.s).name)

\* C3 as stated: GenericFromObject(JsonStructToObject(S, false, false)) into a
\* fresh target returns no error and leaves the target deeply equal to S, for
\* every instance S of a wire-tagged struct type.
C3_RoundTripEveryInstance ==
    RoundTripCase => (~ret2.err /\ ret2.dto = Pointee(arg.s))

\* C3: GenericFromObject(JsonStructToObject(S, false, false)) into a fresh
\* target returns no error and leaves the target deeply equal to S, for every
\* instance S of a wire-tagged struct type that holds no pointer to a nil
\* slice and no string that is not valid UTF-8.
C3_RoundTrip ==
    (RoundTripCase /\ ~HasPtrToNilSlice(arg.s) /\ ~HasInvalidUTF8(arg.s))
        => (~ret2.err /\ ret2.dto = Pointee(arg.s))

C3_Witness ==
    /\ RoundTripCase
    /\ Pointee(arg.s).name = "HostConfigDTO"
    /\ Pointee(arg.s).f.Address = NilPtr
    /\ Pointee(arg.s).f.Port = Ptr(VInt32(0))
    /\ Pointee(arg.s).f.AllowedProtocols = Ptr(VSlice(<<>>))
    /\ Pointee(arg.s).f.ListenOptions = Ptr(ListenOptionsOf(Ptr(VBool(FALSE)), NilPtr))
    /\ Pointee(arg.s).f.PortChecks = Ptr(VSlice(<<PortCheckElem>>))
    /\ ret2.dto = arg.s

RECURSIVE ZeroIntegersKept(_, _, _)
\* Every tagged field of struct val whose kind is in kinds and whose value is 0
\* has its key in map m with the value 0, at every depth of nested structs.
ZeroIntegersKept(val, m, kinds) ==
    \A i \in 1..Len(StructFields(val.name)) :
        LET fd == StructFields(val.name)[i]
            declared == val.f[fd.name]
            field == IF declared.k = "ptr" THEN declared.elem ELSE declared
            key == JsonFieldName(fd.tag)
        IN (fd.tag # "" /\ declared.k # "nilptr") =>
              /\ (field.k \in kinds /\ field.n = 0) => (key \in DOMAIN m /\ m[key] = field)
              /\ (field.k = "struct" /\ key \in DOMAIN m /\ m[key].k = "map")
                    => ZeroIntegersKept(field, m[key].m, kinds)

CollapseCase ==
    /\ pc = "mapped"
    /\ arg.makeZeroNil
    /\ ~arg.ignoreZero
    /\ IsStructOrPointerToStruct(arg.s)

RecognisedZero(v) ==
    \/ v.k = "string" /\ v.s = ""
    \/ v.k = "bool" /\ ~v.b
    \/ v.k = "struct" /\ ReflectIsZero(v)
    \/ v.k = "slice" /\ Len(v.elems) = 0

RECURSIVE OmitsZeroFields(_, _)
\* Map m, built from struct val, has no key of a nil pointer or of a recognised
\* zero value and holds no nil, at every depth of nested-struct maps.
OmitsZeroFields(val, m) ==
    /\ \A key \in DOMAIN m : m[key] # VNil
    /\ \A i \in 1..Len(StructFields(val.name)) :
        LET fd == StructFields(val.name)[i]
            declared == val.f[fd.name]
            field == IF declared.k = "ptr" THEN declared.elem ELSE declared
            key == JsonFieldName(fd.tag)
        IN fd.tag # "" =>
              /\ (declared.k = "nilptr" \/ RecognisedZero(field)) => key \notin DOMAIN m
              /\ (field.k = "struct" /\ key \in DOMAIN m)
                    => (m[key].k = "map" /\ OmitsZeroFields(field, m[key].m))

C6_NilOrUnchangedValue ==
    CollapseCase =>
        /\ ~ret.err
        /\ \A i \in 1..Len(StructFields(Pointee(arg.s).name)) :
            LET fd == StructFields(Pointee(arg.s).name)[i]
                declared == Pointee(arg.s).f[fd.name]
                field == IF declared.k = "ptr" THEN declared.elem ELSE declared
                key == JsonFieldName(fd.tag)
                m == ret.res.m
            IN fd.tag # "" =>
                  /\ key \in DOMAIN m
                  /\ declared.k = "nilptr" => m[key] = VNil
                  /\ (declared.k # "nilptr" /\ ReflectIsZero(field) /\ field.k # "int32")
                        => m[key] = VNil
                  /\ (declared.k # "nilptr" /\ ~ReflectIsZero(field)) => m[key] = field

RECURSIVE CollapsedFields(_, _)
\* Map m holds, for every tagged field of struct val: nil for a nil pointer;
\* for a field of kind string, bool or int, nil when it is zero and the value
\* otherwise; for an int32 the value, 0 included; for a slice nil when it is
\* empty and the slice otherwise; for a struct the map built by these rules.
CollapsedFields(val, m) ==
    /\ DOMAIN m = WireKeys(val.name)
    /\ \A i \in 1..Len(StructFields(val.name)) :
        LET fd == StructFields(val.name)[i]
            declared == val.f[fd.name]
            field == IF declared.k = "ptr" THEN declared.elem ELSE declared
            key == JsonFieldName(fd.tag)
        IN fd.tag # "" =>
              CASE declared.k = "nilptr" -> m[key] = VNil
                [] field.k = "struct" -> m[key].k = "map" /\ CollapsedFields(field, m[key].m)
                [] field.k = "slice" ->
                      m[key] = IF Len(field.elems) = 0 THEN VNil ELSE field
                [] field.k = "int32" -> m[key] = field
                [] field.k = "string" -> m[key] = IF field.s = "" THEN VNil ELSE field
                [] field.k = "bool" -> m[key] = IF field.b THEN field ELSE VNil
                [] field.k = "int" -> m[key] = IF field.n = 0 THEN VNil ELSE field

\* C6: with makeZeroNil=true, ignoreZero=false there is an entry for every
\* tagged field: nil for a nil pointer, for a zero string, bool or int and for
\* an empty slice; the unchanged dereferenced value for a non-zero string, bool
\* or int, for any int32 and for a non-empty slice; and for a struct, zero or
\* not, the map built from it by the same rules.
C6_CollapsedEntries ==
    CollapseCase => (~ret.err /\ CollapsedFields(Pointee(arg.s), ret.res.m))

C6_Witness ==
    /\ CollapseCase
    /\ Pointee(arg.s).name = "TestStruct"
    /\ Pointee(arg.s).f.Name = VStr("Alice")
    /\ Pointee(arg.s).f.Age = VInt(0)
    /\ Pointee(arg.s).f.IsEmployed = VBool(FALSE)
    /\ Pointee(arg.s).f.Address = NilPtr
    /\ ret.res.m = [name |-> VStr("Alice"), age |-> VNil, is_employed |-> VNil,
                    address |-> VNil]

\* C7: JsonStructToObject returns an error and the nil map when its input is
\* neither a struct nor a pointer to a struct, whatever the flags, and a
\* non-nil map and no error when it is one.
C7_StructInputOnly ==
    pc = "mapped" =>
        IF IsStructOrPointerToStruct(arg.s)
        THEN ~ret.err /\ ret.res.k = "map"
        ELSE ret.err /\ ret.res = VNil

C7_Witness ==
    /\ pc = "mapped"
    /\ arg.s = VStr("not a struct")
    /\ arg.makeZeroNil
    /\ arg.ignoreZero
    /\ ret.err
    /\ ret.res = VNil

(***************************************************************************)
(* SpecDecode: GenericFromObject on a bounded map into a fresh target.     *)
(***************************************************************************)
MaxMapKeys == 2

DecodeKeys == {"port", "Port", "address", "age", "listenOptions", "allowedProtocols"}

DecodeValues ==
    { VStr("not-a-number"), VInt(30), VFloat64(5, TRUE), VWide(1), VBool(TRUE), VNil, VChan,
      VSlice(<<VStr("tcp")>>), VMap("cost" :> VInt32(1)), VMap("cost" :> VStr("high")) }

RECURSIVE SubsetsUpTo(_, _)
\* The subsets of S of at most n elements.
SubsetsUpTo(S, n) ==
    IF n = 0 THEN {{}}
    ELSE LET smaller == SubsetsUpTo(S, n - 1)
         IN smaller \cup { T \cup {x} : T \in smaller, x \in S }

DecodeMaps == UNION { [keys -> DecodeValues] : keys \in SubsetsUpTo(DecodeKeys, MaxMapKeys) }

DecodeTargets == { TStruct("TestStruct"), TStruct("HostConfigDTO") }

InitDecode ==
    /\ pc = "decode"
    /\ arg \in [mapData : DecodeMaps, dtoType : DecodeTargets]
    /\ ret = None
    /\ ret2 = None
    /\ controller = None
    /\ state = None

DecodeCall ==
    /\ pc = "decode"
    /\ ret2' = GenericFromObject(arg.mapData, arg.dtoType)
    /\ pc' = "decode_done"
    /\ UNCHANGED <<arg, ret, controller, state>>

NextDecode == DecodeCall

SpecDecode == InitDecode /\ [][NextDecode]_vars

RECURSIVE Serialisable(_)
\* No channel anywhere in the value.
Serialisable(v) ==
    CASE v.k = "chan" -> FALSE
      [] v.k = "ptr" -> Serialisable(v.elem)
      [] v.k = "slice" -> \A i \in 1..Len(v.elems) : Serialisable(v.elems[i])
      [] v.k = "map" -> \A key \in DOMAIN v.m : Serialisable(v.m[key])
      [] OTHER -> TRUE

\* The declared type of the field of struct type name that a key is routed
\* to (wire names compared without regard to case), None when there is none.
TargetOfKey(name, key) ==
    LET fields == StructFields(name)
        at == { i \in 1..Len(fields) :
                  /\ fields[i].tag # ""
                  /\ ToLowerStr(JsonFieldName(fields[i].tag)) = ToLowerStr(key) }
    IN IF at = {} THEN None ELSE fields[CHOOSE i \in at : TRUE].type

RECURSIVE Compatible(_, _)
\* Value v fits the declared type t: nil fits every type, a pointer fits as
\* its pointee does, a string fits string, a bool fits bool, a whole number
\* within the range fits an integer type, a slice fits a slice type when its
\* elements fit, a map fits a struct type when the value of every key routed
\* to a field fits that field.
Compatible(v, t) ==
    CASE v.k = "nil" -> TRUE
      [] v.k # "nil" /\ t.k = "ptr" -> Compatible(v, t.elem)
      [] v.k # "nil" /\ t.k = "string" -> v.k = "string"
      [] v.k # "nil" /\ t.k = "bool" -> v.k = "bool"
      [] v.k # "nil" /\ t.k = "int32" ->
            v.k \in {"int", "int32"} \/ (v.k = "float64" /\ ~v.frac)
      [] v.k # "nil" /\ t.k = "int" ->
            v.k \in {"int", "int32", "wide"} \/ (v.k = "float64" /\ ~v.frac)
      [] v.k # "nil" /\ t.k = "slice" ->
            v.k = "slice" /\ \A i \in 1..Len(v.elems) : Compatible(v.elems[i], t.elem)
      [] v.k # "nil" /\ t.k = "struct" ->
            /\ v.k = "map"
            /\ \A key \in DOMAIN v.m :
                  TargetOfKey(t.name, key) # None
                      => Compatible(v.m[key], TargetOfKey(t.name, key))

\* C8: GenericFromObject returns an error whenever the map holds a value that
\* cannot be serialised (a channel) or a value incompatible with the declared
\* type of the field its key is routed to (a string for the integer port), and
\* returns nil when every value is compatible; on an error of the first kind
\* the target is left as it was.
C8_ErrorIffIncompatible ==
    pc = "decode_done" =>
        /\ ret2.err <=> (~Serialisable(VMap(arg.mapData))
                           \/ ~Compatible(VMap(arg.mapData), arg.dtoType))
        /\ ~Serialisable(VMap(arg.mapData)) => ret2.dto = ZeroOf(arg.dtoType)

C8_Witness ==
    /\ pc = "decode_done"
    /\ arg.dtoType = TStruct("HostConfigDTO")
    /\ arg.mapData = ("port" :> VStr("not-a-number"))
    /\ ret2.err
    /\ ret2.dto.f.Port = Ptr(VInt32(0))

(***************************************************************************)
(* The key converters.  strcase.ToLowerCamel and strcase.ToSnake are read  *)
(* byte by byte; the repository configures no acronym.                     *)
(***************************************************************************)
RECURSIVE TrimSpace(_)
TrimSpace(s) ==
    IF Len(s) > 0 /\ CharAt(s, 1) = " " THEN TrimSpace(SubSeq(s, 2, Len(s)))
    ELSE IF Len(s) > 0 /\ CharAt(s, Len(s)) = " " THEN TrimSpace(SubSeq(s, 1, Len(s) - 1))
    ELSE s

IsSeparator(c) == c \in {" ", "_", "-", "."}

RECURSIVE CamelFrom(_, _, _, _)
\* The output for bytes i.. of s; capNext and prevIsCap as the loop holds them.
CamelFrom(s, i, capNext, prevIsCap) ==
    IF i > Len(s) THEN ""
    ELSE LET v == CharAt(s, i)
             w == IF capNext THEN (IF IsLow(v) THEN ToUpperChar(v) ELSE v)
                  ELSE IF i = 1 THEN (IF IsCap(v) THEN ToLowerChar(v) ELSE v)
                  ELSE IF prevIsCap /\ IsCap(v) THEN ToLowerChar(v)
                  ELSE v
             written == IF IsCap(v) \/ IsLow(v) \/ IsNum(v) THEN w ELSE ""
             capNextAfter == IF IsCap(v) \/ IsLow(v) THEN FALSE
                             ELSE IF IsNum(v) THEN TRUE
                             ELSE IsSeparator(v)
         IN written \o CamelFrom(s, i + 1, capNextAfter, IsCap(v))

\* strcase.ToLowerCamel(key)
ToLowerCamel(s) ==
    LET trimmed == TrimSpace(s)
    IN IF trimmed = "" THEN trimmed ELSE CamelFrom(trimmed, 1, FALSE, FALSE)

RECURSIVE SnakeFrom(_, _)
\* The output for bytes i.. of s, with "_" as the delimiter.
SnakeFrom(s, i) ==
    IF i > Len(s) THEN ""
    ELSE LET v == CharAt(s, i)
             lowered == IF IsCap(v) THEN ToLowerChar(v) ELSE v
             hasNext == i + 1 <= Len(s)
             next == IF hasNext THEN CharAt(s, i + 1) ELSE ""
             caseChanged ==
                 /\ hasNext
                 /\ \/ IsCap(v) /\ (IsLow(next) \/ IsNum(next))
                    \/ IsLow(v) /\ (IsCap(next) \/ IsNum(next))
                    \/ IsNum(v) /\ (IsCap(next) \/ IsLow(next))
             prevIsCap == i > 1 /\ IsCap(CharAt(s, i - 1))
             before == IF IsCap(v) /\ IsLow(next) /\ prevIsCap THEN "_" ELSE ""
             after == IF IsLow(v) \/ IsNum(v) \/ IsNum(next) THEN "_" ELSE ""
             piece == IF caseChanged THEN before \o lowered \o after
                      ELSE IF IsSeparator(v) THEN "_"
                      ELSE lowered
         IN piece \o SnakeFrom(s, i + 1)

\* strcase.ToSnake(key)
ToSnake(s) == SnakeFrom(TrimSpace(s), 1)

RECURSIVE RekeyedFrom(_, _, _)
\* The maps over the result keys in keys, each holding under a key the value
\* of one of the input keys converted to it.
RekeyedFrom(mapData, converted, keys) ==
    IF keys = {} THEN {EmptyMap}
    ELSE LET k == CHOOSE x \in keys : TRUE
             sources == { key \in DOMAIN mapData : converted[key] = k }
         IN { (k :> mapData[src]) @@ rest :
                src \in sources, rest \in RekeyedFrom(mapData, converted, keys \ {k}) }

\* A map rebuilt under converted keys.  Where several keys convert to one
\* key the entry written last stays, and the range over a map visits the
\* keys in no fixed order: every outcome is in the set.
RekeyedMaps(mapData, converted) ==
    RekeyedFrom(mapData, converted, { converted[key] : key \in DOMAIN mapData })

convertKeysToCamel(mapData) ==
    RekeyedMaps(mapData, [key \in DOMAIN mapData |-> ToLowerCamel(key)])

convertKeysToSnake(mapData) ==
    RekeyedMaps(mapData, [key \in DOMAIN mapData |-> ToSnake(key)])

(***************************************************************************)
(* SpecCase: convertKeysToCamel on a bounded flat map, then                *)
(* convertKeysToSnake on its result.                                       *)
(***************************************************************************)
MaxKeyLen == 3
MaxCaseKeys == 2

KeyAlphabet == {"a", "b", "1", "_"}

RECURSIVE KeysOfLen(_)
KeysOfLen(n) ==
    IF n = 0 THEN {""}
    ELSE { s \o c : s \in KeysOfLen(n - 1), c \in KeyAlphabet }

CaseKeys ==
    UNION { KeysOfLen(n) : n \in 1..MaxKeyLen }
        \cup {"first_name", "last_name", "port_checks", "ipv4_address"}

CaseValues == { VStr("John"), VInt32(1) }

CaseMaps == UNION { [keys -> CaseValues] : keys \in SubsetsUpTo(CaseKeys, MaxCaseKeys) }

InitCase ==
    /\ pc = "case"
    /\ arg \in [mapData : CaseMaps]
    /\ ret = None
    /\ ret2 = None
    /\ controller = None
    /\ state = None

CallConvertKeysToCamel ==
    /\ pc = "case"
    /\ ret' \in convertKeysToCamel(arg.mapData)
    /\ pc' = "camel"
    /\ UNCHANGED <<arg, ret2, controller, state>>

CallConvertKeysToSnake ==
    /\ pc = "camel"
    /\ ret2' \in convertKeysToSnake(ret)
    /\ pc' = "snake"
    /\ UNCHANGED <<arg, ret, controller, state>>

NextCase == CallConvertKeysToCamel \/ CallConvertKeysToSnake

SpecCase == InitCase /\ [][NextCase]_vars

\* A snake_case identifier: words of lowercase letters and digits, the first
\* starting with a letter, joined by single underscores.
IsSnakeIdentifier(key) ==
    /\ Len(key) > 0
    /\ IsLow(CharAt(key, 1))
    /\ CharAt(key, Len(key)) # "_"
    /\ \A i \in 1..Len(key) :
          /\ IsLow(CharAt(key, i)) \/ IsNum(CharAt(key, i)) \/ CharAt(key, i) = "_"
          /\ (i < Len(key) /\ CharAt(key, i) = "_") => CharAt(key, i + 1) # "_"

\* C9: convertKeysToSnake(convertKeysToCamel(m)) equals m for every flat map m
\* whose keys are snake_case identifiers: the same keys, the same value under
\* each key and the same number of entries.
C9_SnakeCamelRoundTrip ==
    (pc = "snake" /\ \A key \in DOMAIN arg.mapData : IsSnakeIdentifier(key))
        => ret2 = arg.mapData

(***************************************************************************)
(* The native-value bridge.  A framework value is null, unknown or known:  *)
(*   [tf |-> "string", st |-> "null"], [tf |-> "string", st |-> "known",   *)
(*   s |-> ...], and likewise int32 (n) and bool (b).                      *)
(***************************************************************************)
StringType == [t |-> "string"]
Int32Type == [t |-> "int32"]
BoolType == [t |-> "bool"]
ListType(elemType) == [t |-> "list", elem |-> elemType]

StringNull == [tf |-> "string", st |-> "null"]
StringUnknown == [tf |-> "string", st |-> "unknown"]
StringValue(s) == [tf |-> "string", st |-> "known", s |-> s]
Int32Null == [tf |-> "int32", st |-> "null"]
Int32Value(n) == [tf |-> "int32", st |-> "known", n |-> n]
BoolNull == [tf |-> "bool", st |-> "null"]
BoolValue(b) == [tf |-> "bool", st |-> "known", b |-> b]

\* A nil pointer of a named pointee type, as an interface value holds it.
NilPtrTo(kind) == [k |-> "nilptr", to |-> kind]

\* value.(T): the dynamic type of the interface value is T.
IsOfType(value, kind) == value.k = kind

\* value.(*T): the dynamic type is pointer to T, nil or not.
IsPointerTo(value, kind) ==
    \/ value.k = "ptr" /\ value.elem.k = kind
    \/ value.k = "nilptr" /\ value.to = kind

\* Variant of types.Int32PointerValue that takes a pointer to 0 for no value.
Int32PointerValueZeroNull(val) ==
    IF val.k = "nilptr" \/ val.elem.n = 0 THEN Int32Null ELSE Int32Value(val.elem.n)

StringPointerValue(val) == IF val.k = "nilptr" THEN StringNull ELSE StringValue(val.elem.s)
Int32PointerValue(val) == IF val.k = "nilptr" THEN Int32Null ELSE Int32Value(val.elem.n)
BoolPointerValue(val) == IF val.k = "nilptr" THEN BoolNull ELSE BoolValue(val.elem.b)

\* value, _ := attrs[targetAttrName]
Lookup(attrs, targetAttrName) ==
    IF targetAttrName \in DOMAIN attrs THEN attrs[targetAttrName] ELSE VNil

\* The branch of the loop body that writes no entry: a type other than the
\* three basic ones, or a value that matches none of the type assertions.
WritesNoEntry(value, targetAttrType) ==
    \/ targetAttrType \notin {StringType, Int32Type, BoolType}
    \/ /\ value # VNil
       /\ ~IsOfType(value, targetAttrType.t)
       /\ ~IsPointerTo(value, targetAttrType.t)

\* The entry the loop body writes for a value of a basic target type.
EntryFor(value, targetAttrType) ==
    CASE targetAttrType = StringType ->
            IF value = VNil THEN StringNull
            ELSE IF IsOfType(value, "string") THEN StringValue(value.s)
            ELSE StringPointerValue(value)
      [] targetAttrType = Int32Type ->
            IF value = VNil THEN Int32Null
            ELSE IF IsOfType(value, "int32") THEN Int32Value(value.n)
            ELSE Int32PointerValue(value)
      [] targetAttrType = BoolType ->
            IF value = VNil THEN BoolNull
            ELSE IF IsOfType(value, "bool") THEN BoolValue(value.b)
            ELSE BoolPointerValue(value)

NativeBasicTypedAttributesToTerraform(attrs, attrTypes) ==
    LET written == { name \in DOMAIN attrTypes :
                       ~WritesNoEntry(Lookup(attrs, name), attrTypes[name]) }
    IN [name \in written |-> EntryFor(Lookup(attrs, name), attrTypes[name])]

(***************************************************************************)
(* SpecBridge: NativeBasicTypedAttributesToTerraform on bounded maps.      *)
(***************************************************************************)
BridgeNames == {"connect_timeout_seconds", "cost"}

BridgeTypes == { StringType, Int32Type, BoolType, ListType(StringType) }

BridgeValues ==
    { VNil, VStr("5s"), VStr(""), VInt32(5), VInt32(0), VBool(TRUE), VBool(FALSE),
      Ptr(VStr("5s")), Ptr(VInt32(5)), Ptr(VBool(FALSE)),
      NilPtrTo("string"), NilPtrTo("int32"), NilPtrTo("bool"), VInt(5) }

BridgeAttrs == UNION { [names -> BridgeValues] : names \in SUBSET BridgeNames }

InitBridge ==
    /\ pc = "bridge"
    /\ arg \in [attrs : BridgeAttrs, attrTypes : [BridgeNames -> BridgeTypes]]
    /\ ret = None
    /\ ret2 = None
    /\ controller = None
    /\ state = None

CallNativeBasicTypedAttributesToTerraform ==
    /\ pc = "bridge"
    /\ ret' = NativeBasicTypedAttributesToTerraform(arg.attrs, arg.attrTypes)
    /\ pc' = "bridged"
    /\ UNCHANGED <<arg, ret2, controller, state>>

NextBridge == CallNativeBasicTypedAttributesToTerraform

SpecBridge == InitBridge /\ [][NextBridge]_vars

\* The null of a basic target type.
NullOf(targetAttrType) ==
    CASE targetAttrType = StringType -> StringNull
      [] targetAttrType = Int32Type -> Int32Null
      [] targetAttrType = BoolType -> BoolNull

\* The native value behind an input entry, None when the entry is absent, nil,
\* a nil pointer, or of another type than the target's.
NativeOf(value, targetAttrType) ==
    IF value.k = targetAttrType.t THEN value
    ELSE IF value.k = "ptr" /\ value.elem.k = targetAttrType.t THEN value.elem
    ELSE None

\* C10: NativeBasicTypedAttributesToTerraform returns an entry for every
\* target attribute of string, int32 or bool type: the known value wrapping
\* the native value when the input holds a value of the matching type or a
\* pointer to one, and the null of the target kind otherwise, a mismatched
\* entry included.
C10_EntryForEveryBasicTarget ==
    pc = "bridged" =>
        \A name \in DOMAIN arg.attrTypes :
            LET type == arg.attrTypes[name]
                native == NativeOf(Lookup(arg.attrs, name), type)
            IN type \in {StringType, Int32Type, BoolType} =>
                  /\ name \in DOMAIN ret
                  /\ ret[name] = IF native = None THEN NullOf(type)
                                 ELSE CASE type = StringType -> StringValue(native.s)
                                        [] type = Int32Type -> Int32Value(native.n)
                                        [] type = BoolType -> BoolValue(native.b)

(***************************************************************************)
(* The host.v1 config resource: framework lists and objects.               *)
(***************************************************************************)
ObjectType(attrTypes) == [t |-> "object", attrs |-> attrTypes]

ListNull == [tf |-> "list", st |-> "null"]
ListValue(elems) == [tf |-> "list", st |-> "known", elems |-> elems]
ObjectNull == [tf |-> "object", st |-> "null"]
ObjectUnknown == [tf |-> "object", st |-> "unknown"]
ObjectValue(attrs) == [tf |-> "object", st |-> "known", attrs |-> attrs]

AllowedPortRangeModel == [low |-> Int32Type, high |-> Int32Type]

ListenOptionsModel ==
    [bind_using_edge_identity |-> BoolType, connect_timeout |-> StringType,
     cost |-> Int32Type, max_connections |-> Int32Type, precedence |-> StringType]

CheckActionModel ==
    [trigger |-> StringType, duration |-> StringType, action |-> StringType,
     consecutive_events |-> Int32Type]

PortCheckModel ==
    [address |-> StringType, interval |-> StringType, timeout |-> StringType,
     actions |-> ListType(ObjectType(CheckActionModel))]

HTTPCheckModel ==
    [url |-> StringType, method |-> StringType, body |-> StringType,
     expect_status |-> Int32Type, expect_in_body |-> StringType, interval |-> StringType,
     timeout |-> StringType, actions |-> ListType(ObjectType(CheckActionModel))]

\* The accessors of the framework values: the zero value unless known.
ValueString(v) == IF v.st = "known" THEN v.s ELSE ""
ValueInt32(v) == IF v.st = "known" THEN v.n ELSE 0
ValueBool(v) == IF v.st = "known" THEN v.b ELSE FALSE
ValueStringPointer(v) == IF v.st = "null" THEN NilPtr ELSE Ptr(VStr(ValueString(v)))
ValueInt32Pointer(v) == IF v.st = "null" THEN NilPtr ELSE Ptr(VInt32(ValueInt32(v)))
ValueBoolPointer(v) == IF v.st = "null" THEN NilPtr ELSE Ptr(VBool(ValueBool(v)))
Elements(list) == IF list.st = "known" THEN list.elems ELSE <<>>
Attributes(object) == IF object.st = "known" THEN object.attrs ELSE EmptyMap

\* basetypes.NewObjectValue: the object when the attributes are those of the
\* type, each of its declared type; the unknown object (and diagnostics)
\* when one is missing, extra or of another type.
NewObjectValue(attrTypes, attrs) ==
    IF /\ DOMAIN attrs = DOMAIN attrTypes
       /\ \A name \in DOMAIN attrTypes : attrs[name].tf = attrTypes[name].t
    THEN ObjectValue(attrs)
    ELSE ObjectUnknown

\* types.ListValueFrom of a Go slice of values: the null list for a nil
\* slice (one that nothing was appended to), else the list of the elements.
ListValueFrom(elems) == IF Len(elems) = 0 THEN ListNull ELSE ListValue(elems)

(***************************************************************************)
(* ToHostConfigDTO and the helpers it calls.                               *)
(***************************************************************************)
\* Variant that unwraps every attribute holding a number, types.Int64 included.
AttributesToNativeTypesAnyNumber(attrs) ==
    [key \in { name \in DOMAIN attrs : attrs[name].tf \in {"string", "int32", "int64", "bool"} } |->
        CASE attrs[key].tf = "string" -> VStr(ValueString(attrs[key]))
          [] attrs[key].tf \in {"int32", "int64"} -> VInt32(ValueInt32(attrs[key]))
          [] attrs[key].tf = "bool" -> VBool(ValueBool(attrs[key]))]

\* for key, value := range attrs: the type switch over types.String,
\* types.Int32 and types.Bool; a value of any other type adds nothing.
AttributesToNativeTypes(attrs) ==
    [key \in { name \in DOMAIN attrs : attrs[name].tf \in {"string", "int32", "bool"} } |->
        CASE attrs[key].tf = "string" -> VStr(ValueString(attrs[key]))
          [] attrs[key].tf = "int32" -> VInt32(ValueInt32(attrs[key]))
          [] attrs[key].tf = "bool" -> VBool(ValueBool(attrs[key]))]

\* The attribute names of one object type convert to distinct keys, so the
\* rebuilt map is the same for every iteration order.
CamelKeys(mapData) == CHOOSE result \in convertKeysToCamel(mapData) : TRUE
SnakeKeys(mapData) == CHOOSE result \in convertKeysToSnake(mapData) : TRUE

\* ElementsToStringArray (resource_ziti_host_config.go): never a nil slice.
ElementsToStringArray(elements) ==
    VSlice([i \in 1..Len(elements) |-> VStr(ValueString(elements[i]))])

\* attrsNative through convertKeysToCamel and GenericFromObject into a fresh
\* struct of the named type; the error GenericFromObject returns is dropped.
StructFromAttributes(attr, name) ==
    GenericFromObject(CamelKeys(AttributesToNativeTypes(attr)), TStruct(name)).dto

AttributesToListenOptionsStruct(attr) == StructFromAttributes(attr, "ListenOptionsDTO")

\* elements := attr["actions"].(types.List).Elements()
ActionElements(attr) ==
    IF "actions" \in DOMAIN attr /\ attr["actions"].tf = "list"
    THEN Elements(attr["actions"])
    ELSE <<>>

\* actionsArray: one CheckActionDTO per element.
ActionStructs(elements) ==
    [i \in 1..Len(elements) |->
        StructFromAttributes(Attributes(elements[i]), "CheckActionDTO")]

\* if len(actionsArray) > 0 { check.Actions = &actionsArray }
WithActions(check, actionsArray) ==
    IF Len(actionsArray) > 0
    THEN VStruct(check.name, [check.f EXCEPT !["Actions"] = Ptr(VSlice(actionsArray))])
    ELSE check

\* The body shared by AttributesToPortChecksStruct and
\* AttributesToHTTPChecksStruct: the basic attributes, then the actions list,
\* which is attached only when it has an element.
AttributesToCheckStruct(attr, name) ==
    WithActions(StructFromAttributes(attr, name), ActionStructs(ActionElements(attr)))

AttributesToPortChecksStruct(attr) == AttributesToCheckStruct(attr, "PortCheckDTO")
AttributesToHTTPChecksStruct(attr) == AttributesToCheckStruct(attr, "HTTPCheckDTO")

\* Variant of ElementsToListOfStructs that converts the first element only.
ElementsToListOfStructsFirstOnly(elements) ==
    VSlice([i \in 1..1 |->
              GenericFromObject(AttributesToNativeTypes(Attributes(elements[i])),
                                TStruct("HostConfigAllowedPortsDTO")).dto])

\* ElementsToListOfStructs: the port ranges, their keys taken as they are.
ElementsToListOfStructs(elements) ==
    VSlice([i \in 1..Len(elements) |->
              GenericFromObject(AttributesToNativeTypes(Attributes(elements[i])),
                                TStruct("HostConfigAllowedPortsDTO")).dto])

\* var checks []T, then append per element: nil when there is no element.
AppendedChecks(elements, name) ==
    IF Len(elements) = 0 THEN NilSlice
    ELSE VSlice([i \in 1..Len(elements) |->
                    AttributesToCheckStruct(Attributes(elements[i]), name)])

ToHostConfigDTO(r) ==
    VStruct("HostConfigDTO",
        [Address |-> ValueStringPointer(r.Address),
         Protocol |-> ValueStringPointer(r.Protocol),
         ListenOptions |-> Ptr(AttributesToListenOptionsStruct(Attributes(r.ListenOptions))),
         PortChecks |-> Ptr(AppendedChecks(Elements(r.PortChecks), "PortCheckDTO")),
         HTTPChecks |-> Ptr(AppendedChecks(Elements(r.HTTPChecks), "HTTPCheckDTO")),
         ForwardAddress |->
            IF ValueBool(r.ForwardAddress) THEN ValueBoolPointer(r.ForwardAddress) ELSE NilPtr,
         ForwardPort |->
            IF ValueBool(r.ForwardPort) THEN ValueBoolPointer(r.ForwardPort) ELSE NilPtr,
         ForwardProtocol |->
            IF ValueBool(r.ForwardProtocol) THEN ValueBoolPointer(r.ForwardProtocol)
            ELSE NilPtr,
         Port |-> IF ValueInt32(r.Port) > 0 THEN ValueInt32Pointer(r.Port) ELSE NilPtr,
         AllowedProtocols |->
            IF Len(Elements(r.AllowedProtocols)) > 0
            THEN Ptr(ElementsToStringArray(Elements(r.AllowedProtocols))) ELSE NilPtr,
         AllowedAddresses |->
            IF Len(Elements(r.AllowedAddresses)) > 0
            THEN Ptr(ElementsToStringArray(Elements(r.AllowedAddresses))) ELSE NilPtr,
         AllowedSourceAddresses |->
            IF Len(Elements(r.AllowedSourceAddresses)) > 0
            THEN Ptr(ElementsToStringArray(Elements(r.AllowedSourceAddresses))) ELSE NilPtr,
         AllowedPortRanges |->
            IF Len(Elements(r.AllowedPortRanges)) > 0
            THEN Ptr(ElementsToListOfStructs(Elements(r.AllowedPortRanges))) ELSE NilPtr])

(***************************************************************************)
(* ConvertToZitiResourceModel                                              *)
(***************************************************************************)
\* A *[]string into a list: the null list when the pointer is nil or the
\* slice is empty.
StringListFrom(p) ==
    IF p.k = "ptr" /\ Len(p.elem.elems) > 0
    THEN ListValue([i \in 1..Len(p.elem.elems) |-> StringValue(p.elem.elems[i].s)])
    ELSE ListNull

\* JsonStructToObject(ctx, x, true, false), its error dropped.
CollapsedObject(x) == JsonStructToObject(x, TRUE, FALSE).res.m

AllowedPortRangesFrom(p) ==
    IF p.k = "ptr"
    THEN ListValueFrom([i \in 1..Len(p.elem.elems) |->
            NewObjectValue(AllowedPortRangeModel,
                NativeBasicTypedAttributesToTerraform(CollapsedObject(p.elem.elems[i]),
                                                      AllowedPortRangeModel))])
    ELSE ListNull

ListenOptionsFrom(p) ==
    IF p.k = "ptr"
    THEN NewObjectValue(ListenOptionsModel,
            NativeBasicTypedAttributesToTerraform(SnakeKeys(CollapsedObject(p.elem)),
                                                  ListenOptionsModel))
    ELSE ObjectNull

\* delete(checkObject, "actions")
WithoutActions(object) == [key \in DOMAIN object \ {"actions"} |-> object[key]]

ActionFrom(item) ==
    NewObjectValue(CheckActionModel,
        NativeBasicTypedAttributesToTerraform(SnakeKeys(CollapsedObject(item)),
                                              CheckActionModel))

\* One element of the checks loop; *check.Actions is read without a test, so a
\* check whose Actions is nil ends the call in a nil-pointer panic.
CheckPanics(check) == check.f.Actions.k = "nilptr"

CheckFrom(check, attrTypes) ==
    LET checkMap == NativeBasicTypedAttributesToTerraform(
                        WithoutActions(SnakeKeys(CollapsedObject(check))), attrTypes)
        items == check.f.Actions.elem.elems
        actionsList == ListValueFrom([i \in 1..Len(items) |-> ActionFrom(items[i])])
    IN NewObjectValue(attrTypes, ("actions" :> actionsList) @@ checkMap)

ChecksPanic(p) ==
    p.k = "ptr" /\ \E i \in 1..Len(p.elem.elems) : CheckPanics(p.elem.elems[i])

\* Variant of the checks branch that gives a known empty list for a nil pointer.
ChecksFromEmptyForNil(p, attrTypes) ==
    IF p.k = "ptr"
    THEN ListValueFrom([i \in 1..Len(p.elem.elems) |-> CheckFrom(p.elem.elems[i], attrTypes)])
    ELSE ListValue(<<>>)

ChecksFrom(p, attrTypes) ==
    IF p.k = "ptr"
    THEN ListValueFrom([i \in 1..Len(p.elem.elems) |-> CheckFrom(p.elem.elems[i], attrTypes)])
    ELSE ListNull

\* [panic, res]: whether the call panics, and the model it returns otherwise.
ConvertToZitiResourceModel(dto) ==
    IF ChecksPanic(dto.f.HTTPChecks) \/ ChecksPanic(dto.f.PortChecks)
    THEN [panic |-> TRUE, res |-> None]
    ELSE [panic |-> FALSE,
          res |-> [Name |-> StringNull,
                   ConfigTypeId |-> StringNull,
                   ID |-> StringNull,
                   Address |-> StringPointerValue(dto.f.Address),
                   Port |-> Int32PointerValue(dto.f.Port),
                   Protocol |-> StringPointerValue(dto.f.Protocol),
                   ForwardProtocol |-> BoolPointerValue(dto.f.ForwardProtocol),
                   ForwardPort |-> BoolPointerValue(dto.f.ForwardPort),
                   ForwardAddress |-> BoolPointerValue(dto.f.ForwardAddress),
                   AllowedProtocols |-> StringListFrom(dto.f.AllowedProtocols),
                   AllowedAddresses |-> StringListFrom(dto.f.AllowedAddresses),
                   AllowedSourceAddresses |-> StringListFrom(dto.f.AllowedSourceAddresses),
                   AllowedPortRanges |-> AllowedPortRangesFrom(dto.f.AllowedPortRanges),
                   ListenOptions |-> ListenOptionsFrom(dto.f.ListenOptions),
                   HTTPChecks |-> ChecksFrom(dto.f.HTTPChecks, HTTPCheckModel),
                   PortChecks |-> ChecksFrom(dto.f.PortChecks, PortCheckModel)]]

(***************************************************************************)
(* SpecPayload: ConvertToZitiResourceModel on a bounded HostConfigDTO,     *)
(* then ToHostConfigDTO on the model it returns.                           *)
(***************************************************************************)
CheckActionOf(ce) ==
    VStruct("CheckActionDTO",
            [Trigger |-> Ptr(VStr("fail")), Duration |-> Ptr(VStr("30s")),
             ConsecutiveEvents |-> ce, Action |-> Ptr(VStr("mark unhealthy"))])

PortCheckOf(actions) ==
    VStruct("PortCheckDTO",
            [Address |-> Ptr(VStr("localhost")), Interval |-> Ptr(VStr("5s")),
             Timeout |-> Ptr(VStr("10s")), Actions |-> actions])

HTTPCheckOf(body, actions) ==
    VStruct("HTTPCheckDTO",
            [Url |-> Ptr(VStr("https://localhost/health")), Method |-> Ptr(VStr("GET")),
             Body |-> body, ExpectStatus |-> Ptr(VInt32(200)), ExpectInBody |-> NilPtr,
             Interval |-> Ptr(VStr("5s")), Timeout |-> Ptr(VStr("10s")), Actions |-> actions])

ListenOptionsWith(b, c, co, m, p) ==
    VStruct("ListenOptionsDTO",
            [BindUsingEdgeIdentity |-> b, ConnectTimeout |-> c, Cost |-> co,
             MaxConnections |-> m, Precedence |-> p])

PayloadListenOptions ==
    { NilPtr,
      Ptr(ListenOptionsWith(NilPtr, NilPtr, NilPtr, NilPtr, NilPtr)),
      Ptr(ListenOptionsWith(NilPtr, NilPtr, Ptr(VInt32(10)), NilPtr, NilPtr)),
      Ptr(ListenOptionsWith(NilPtr, Ptr(VStr("5s")), Ptr(VInt32(0)), Ptr(VInt32(65535)),
                            Ptr(VStr("default")))),
      Ptr(ListenOptionsWith(Ptr(VBool(TRUE)), Ptr(VStr("5s")), Ptr(VInt32(0)),
                            Ptr(VInt32(65535)), Ptr(VStr("default")))) }

PayloadPortChecks ==
    { NilPtr, Ptr(VSlice(<<>>)),
      Ptr(VSlice(<<PortCheckOf(Ptr(VSlice(<<CheckActionOf(Ptr(VInt32(1)))>>)))>>)),
      Ptr(VSlice(<<PortCheckOf(Ptr(VSlice(<<>>)))>>)),
      Ptr(VSlice(<<PortCheckOf(NilPtr)>>)) }

PayloadHTTPChecks ==
    { NilPtr,
      Ptr(VSlice(<<HTTPCheckOf(NilPtr, Ptr(VSlice(<<CheckActionOf(Ptr(VInt32(1)))>>)))>>)) }

PayloadDTOs ==
    { VStruct("HostConfigDTO",
              [Address |-> ad, Port |-> po, Protocol |-> Ptr(VStr("tcp")),
               ForwardProtocol |-> NilPtr, ForwardPort |-> fp, ForwardAddress |-> NilPtr,
               AllowedProtocols |-> ap, AllowedAddresses |-> NilPtr,
               AllowedSourceAddresses |-> NilPtr, AllowedPortRanges |-> apr,
               ListenOptions |-> lo, HTTPChecks |-> hcs, PortChecks |-> pcs]) :
        ad \in StrPtrs({"localhost"}), po \in Int32Ptrs({5432}), fp \in BoolPtrs,
        ap \in {NilPtr, Ptr(VSlice(<<>>)), Ptr(VSlice(<<VStr("tcp")>>))},
        apr \in {NilPtr,
                 Ptr(VSlice(<< VStruct("HostConfigAllowedPortsDTO",
                                       [Low |-> VInt32(80), High |-> VInt32(443)]) >>))},
        lo \in PayloadListenOptions, hcs \in PayloadHTTPChecks, pcs \in PayloadPortChecks }

InitPayload ==
    /\ pc = "payload"
    /\ arg \in [dto : PayloadDTOs]
    /\ ret = None
    /\ ret2 = None
    /\ controller = None
    /\ state = None

CallConvertToZitiResourceModel ==
    /\ pc = "payload"
    /\ ret' = ConvertToZitiResourceModel(arg.dto)
    /\ pc' = IF ret'.panic THEN "panicked" ELSE "model"
    /\ UNCHANGED <<arg, ret2, controller, state>>

CallToHostConfigDTO ==
    /\ pc = "model"
    /\ ret2' = ToHostConfigDTO(ret.res)
    /\ pc' = "payload_back"
    /\ UNCHANGED <<arg, ret, controller, state>>

NextPayload == CallConvertToZitiResourceModel \/ CallToHostConfigDTO

SpecPayload == InitPayload /\ [][NextPayload]_vars

\* A DTO of valid fields: the port, when set, is within 1..65535 and every
\* check carries its actions list.
ValidPayload(dto) ==
    /\ dto.f.Port.k = "ptr" => dto.f.Port.elem.n \in 1..65535
    /\ \A fn \in {"PortChecks", "HTTPChecks"} :
          dto.f[fn].k = "ptr" =>
              \A i \in 1..Len(dto.f[fn].elem.elems) :
                  dto.f[fn].elem.elems[i].f.Actions.k = "ptr"

\* An empty collection or object: a slice without elements, a struct whose
\* fields are all nil.
IsEmptyCollection(v) ==
    \/ v.k = "slice" /\ Len(v.elems) = 0
    \/ v.k = "struct" /\ \A fn \in DOMAIN v.f : v.f[fn] = NilPtr

RECURSIVE Normalized(_)
\* The value with every pointer to an empty collection or object, and every
\* nil slice, replaced by the absent one.
Normalized(v) ==
    CASE v.k = "ptr" ->
            LET elem == Normalized(v.elem)
            IN IF IsEmptyCollection(elem) THEN NilPtr ELSE Ptr(elem)
      [] v.k = "slice" -> VSlice([i \in 1..Len(v.elems) |-> Normalized(v.elems[i])])
      [] v.k = "struct" -> VStruct(v.name, [fn \in DOMAIN v.f |-> Normalized(v.f[fn])])
      [] OTHER -> v

\* C2: for every HostConfigDTO P of valid fields, ConvertToZitiResourceModel
\* followed by ToHostConfigDTO yields a DTO equal to P once absent and empty
\* collections and objects are identified: every pointer field set in P comes
\* back set with the same value, and no other does.
C2_PayloadRoundTrip ==
    (pc = "payload_back" /\ ValidPayload(arg.dto))
        => Normalized(ret2) = Normalized(arg.dto)

(***************************************************************************)
(* SpecHost: a plan the validators accept is created, the controller       *)
(* stores the payload it receives, and Read rebuilds the state from what   *)
(* DetailConfig returns.                                                   *)
(***************************************************************************)
RECURSIVE FromJSON(_)
\* A JSON document decoded into interface{} values.
FromJSON(j) ==
    CASE j.j = "null" -> VNil
      [] j.j = "bool" -> VBool(j.b)
      [] j.j = "number" -> IF j.wide THEN VWide(j.n) ELSE VFloat64(j.n, j.frac)
      [] j.j = "string" -> VStr(j.s)
      [] j.j = "array" -> VSlice([i \in 1..Len(j.a) |-> FromJSON(j.a[i])])
      [] j.j = "object" -> VMap([key \in DOMAIN j.o |-> FromJSON(j.o[key])])

IsSet(v) == v.st # "null"

\* ConfigValidators: AtLeastOneOf, Conflicting and RequiredTogether over the
\* configured attributes.
ValidatorsAccept(m) ==
    /\ IsSet(m.Address) \/ IsSet(m.ForwardAddress)
    /\ IsSet(m.Protocol) \/ IsSet(m.ForwardProtocol)
    /\ IsSet(m.Port) \/ IsSet(m.ForwardPort)
    /\ ~(IsSet(m.Address) /\ IsSet(m.ForwardAddress))
    /\ ~(IsSet(m.Protocol) /\ IsSet(m.ForwardProtocol))
    /\ ~(IsSet(m.Port) /\ IsSet(m.ForwardPort))
    /\ IsSet(m.ForwardProtocol) <=> IsSet(m.AllowedProtocols)
    /\ IsSet(m.ForwardPort) <=> IsSet(m.AllowedPortRanges)

\* The attribute validators of the schema on the values of the model.
SchemaAccepts(m) ==
    /\ IsSet(m.Port) => ValueInt32(m.Port) \in 1..65535
    /\ IsSet(m.Protocol) => ValueString(m.Protocol) \in {"tcp", "udp"}
    /\ \A i \in 1..Len(Elements(m.AllowedProtocols)) :
          ValueString(Elements(m.AllowedProtocols)[i]) \in {"tcp", "udp"}
    /\ \A i \in 1..Len(Elements(m.AllowedPortRanges)) :
          \A name \in {"low", "high"} :
              ValueInt32(Elements(m.AllowedPortRanges)[i].attrs[name]) \in 1..65535
    /\ IsSet(m.ListenOptions) =>
          /\ ValueInt32(m.ListenOptions.attrs.cost) \in 0..65535
          /\ ValueInt32(m.ListenOptions.attrs.max_connections) \in 1..65535
          /\ ValueString(m.ListenOptions.attrs.precedence) \in {"default", "required", "failed"}

BoolValues == {BoolNull, BoolValue(FALSE), BoolValue(TRUE)}

ActionObject ==
    ObjectValue([trigger |-> StringValue("fail"), duration |-> StringValue("30s"),
                 action |-> StringValue("mark unhealthy"),
                 consecutive_events |-> Int32Value(1)])

PortCheckObject(actions) ==
    ObjectValue([address |-> StringValue("localhost"), interval |-> StringValue("5s"),
                 timeout |-> StringValue("10s"), actions |-> actions])

HTTPCheckObject(actions) ==
    ObjectValue([url |-> StringValue("https://localhost/health"),
                 method |-> StringValue("GET"), body |-> StringNull,
                 expect_status |-> Int32Value(200), expect_in_body |-> StringNull,
                 interval |-> StringValue("5s"), timeout |-> StringValue("10s"),
                 actions |-> actions])

\* listen_options as planned: absent, or with the schema defaults filled in
\* where the configuration leaves an attribute out.
PlannedListenOptions ==
    {ObjectNull} \cup
    { ObjectValue([bind_using_edge_identity |-> bc[1], connect_timeout |-> StringValue(bc[2]),
                   cost |-> Int32Value(0), max_connections |-> Int32Value(65535),
                   precedence |-> StringValue("default")]) :
        bc \in {<<BoolValue(TRUE), "5s">>, <<BoolValue(FALSE), "">>} }

Plans ==
    { [Name |-> StringValue("host"), ConfigTypeId |-> StringValue("NH5p4FpGR"),
       ID |-> StringUnknown,
       Address |-> ad, ForwardAddress |-> fa, Port |-> po, ForwardPort |-> fpo,
       Protocol |-> pr, ForwardProtocol |-> fpr,
       AllowedProtocols |-> ap, AllowedAddresses |-> ListNull,
       AllowedSourceAddresses |-> ListNull, AllowedPortRanges |-> apr,
       ListenOptions |-> lo, PortChecks |-> pcs, HTTPChecks |-> hcs] :
        ad \in {StringNull, StringValue(""), StringValue("localhost")},
        fa \in {BoolNull, BoolValue(FALSE)},
        po \in {Int32Null, Int32Value(5432)}, fpo \in {BoolNull, BoolValue(TRUE)},
        pr \in {StringNull, StringValue("tcp")}, fpr \in {BoolNull, BoolValue(FALSE)},
        ap \in {ListNull, ListValue(<<StringValue("tcp")>>)},
        apr \in {ListNull,
                 ListValue(<<ObjectValue([low |-> Int32Value(1024),
                                          high |-> Int32Value(2048)])>>)},
        lo \in PlannedListenOptions,
        pcs \in {ListValue(<<>>),
                 ListValue(<<PortCheckObject(ListValue(<<ActionObject>>))>>),
                 ListValue(<<PortCheckObject(ListValue(<<>>))>>)},
        hcs \in {ListNull} }

ValidPlans == { m \in Plans : ValidatorsAccept(m) /\ SchemaAccepts(m) }

InitHost ==
    /\ pc = "planned"
    /\ arg \in [plan : ValidPlans]
    /\ ret = None
    /\ ret2 = None
    /\ controller = None
    /\ state = None

\* Create, the controller accepting the config and storing its data.  ret
\* holds plan.ToHostConfigDTO(ctx) and ret2 the requestObject built from it.
Create ==
    /\ pc = "planned"
    /\ ret' = ToHostConfigDTO(arg.plan)
    /\ ret2' = JsonStructToObject(ret', TRUE, TRUE)
    /\ ~ret2'.err
    /\ controller' = [name |-> ValueString(arg.plan.Name),
                      configTypeId |-> ValueString(arg.plan.ConfigTypeId),
                      id |-> "id-1",
                      data |-> Marshal(ret2'.res)]
    /\ state' = [arg.plan EXCEPT !.ID = StringValue("id-1")]
    /\ pc' = "created"
    /\ UNCHANGED arg

\* Create, the controller answering CreateConfig with an error: no state.
CreateRejected ==
    /\ pc = "planned"
    /\ pc' = "create_failed"
    /\ UNCHANGED <<arg, ret, ret2, controller, state>>

\* Read up to the conversion of the response: DetailConfig returns the stored
\* config, ret holds responseData and ret2 the result of
\* GenericFromObject(responseData, &hostConfigDto).
ReadResponse ==
    /\ pc = "created"
    /\ ret' = FromJSON(controller.data)
    /\ ret2' = GenericFromObject(ret'.m, TStruct("HostConfigDTO"))
    /\ pc' = "read_decoded"
    /\ UNCHANGED <<arg, controller, state>>

\* Read, next: newState := hostConfigDto.ConvertToZitiResourceModel(ctx), kept
\* in ret with the flag of a nil dereference.  The only step enabled once the
\* response is decoded.
ReadConvert ==
    /\ pc = "read_decoded"
    /\ ret' = ConvertToZitiResourceModel(ret2.dto)
    /\ pc' = "read_converted"
    /\ UNCHANGED <<arg, ret2, controller, state>>

\* Read, last: the three attributes Read fills in itself and resp.State.Set.
\* The only step enabled once the response is converted.
ReadState ==
    /\ pc = "read_converted"
    /\ IF ret.panic
       THEN pc' = "read_panicked" /\ state' = state
       ELSE /\ pc' = "read"
            /\ state' = [ret.res EXCEPT !.Name = StringValue(controller.name),
                                        !.ID = state.ID,
                                        !.ConfigTypeId = state.ConfigTypeId]
    /\ UNCHANGED <<arg, ret, ret2, controller>>

NextHost == Create \/ CreateRejected \/ ReadResponse \/ ReadConvert \/ ReadState

SpecHost == InitHost /\ [][NextHost]_vars

RECURSIVE NullForEmpty(_)
\* The framework value with every empty list replaced by the null list.
NullForEmpty(v) ==
    CASE v.tf = "list" ->
            IF Len(Elements(v)) = 0 THEN ListNull
            ELSE ListValue([i \in 1..Len(v.elems) |-> NullForEmpty(v.elems[i])])
      [] v.tf = "object" ->
            IF v.st = "known"
            THEN ObjectValue([name \in DOMAIN v.attrs |-> NullForEmpty(v.attrs[name])])
            ELSE v
      [] OTHER -> v

HostAttributes ==
    {"Address", "Port", "Protocol", "ForwardAddress", "ForwardPort", "ForwardProtocol",
     "AllowedProtocols", "AllowedAddresses", "AllowedSourceAddresses", "AllowedPortRanges",
     "ListenOptions", "PortChecks", "HTTPChecks"}

\* C1: after Create of a plan the validators accept, Read of the payload the
\* controller stored completes and yields a state whose attributes equal the
\* plan's, an empty list counting as a null list: no known value, false, 0 and
\* the empty string included, has become null, and no null has become known.
C1_CreateReadKeepsPlan ==
    pc \in {"read", "read_panicked"} =>
        /\ pc = "read"
        /\ \A a \in HostAttributes : NullForEmpty(state[a]) = NullForEmpty(arg.plan[a])

(***************************************************************************)
(* SpecNative: AttributesToNativeTypes applied to attribute maps that mix   *)
(* the basic kinds with kinds it does not handle.                           *)
(***************************************************************************)
MaxNativeAttrs == 2

Int64Value(n) == [tf |-> "int64", st |-> "known", n |-> n]
MapValue(entries) == [tf |-> "map", st |-> "known", entries |-> entries]

NativeNames == {"str", "int", "bool", "body"}

NativeValues ==
    {StringNull, StringUnknown, StringValue(""), StringValue("test"),
     Int32Null, Int32Value(0), Int32Value(42),
     BoolNull, BoolValue(FALSE), BoolValue(TRUE),
     Int64Value(42), ListNull, ListValue(<<StringValue("tcp")>>),
     MapValue([a |-> StringValue("x")]), ObjectNull,
     ObjectValue([low |-> Int32Value(80), high |-> Int32Value(443)])}

NativeAttrs ==
    UNION { [keys -> NativeValues] : keys \in SubsetsUpTo(NativeNames, MaxNativeAttrs) }

InitNative ==
    /\ pc = "attrs"
    /\ arg \in [attrs : NativeAttrs]
    /\ ret = None
    /\ ret2 = None
    /\ controller = None
    /\ state = None

CallAttributesToNativeTypes ==
    /\ pc = "attrs"
    /\ ret' = AttributesToNativeTypes(arg.attrs)
    /\ pc' = "native"
    /\ UNCHANGED <<arg, ret2, controller, state>>

NextNative == CallAttributesToNativeTypes

SpecNative == InitNative /\ [][NextNative]_vars

IsBasicKind(v) == v.tf \in {"string", "int32", "bool"}

\* The native value a known basic attribute wraps.
Unwrapped(v) ==
    CASE v.tf = "string" -> VStr(v.s)
      [] v.tf = "int32" -> VInt32(v.n)
      [] v.tf = "bool" -> VBool(v.b)

\* C11: AttributesToNativeTypes returns, for every attribute of kind string,
\* int32 or bool that holds a known value, an entry with the same key and the
\* unwrapped native value, and no entry for an attribute of another kind
\* (list, map, object, int64); the empty input gives the empty map.
C11_BasicKindsUnwrapped ==
    pc = "native" =>
        /\ \A key \in DOMAIN arg.attrs :
              /\ (IsBasicKind(arg.attrs[key]) /\ arg.attrs[key].st = "known") =>
                    (key \in DOMAIN ret /\ ret[key] = Unwrapped(arg.attrs[key]))
              /\ ~IsBasicKind(arg.attrs[key]) => key \notin DOMAIN ret
        /\ DOMAIN ret \subseteq DOMAIN arg.attrs
        /\ (DOMAIN arg.attrs = {}) => ret = EmptyMap

C11_Witness ==
    /\ pc = "native"
    /\ \E key \in DOMAIN arg.attrs : arg.attrs[key] = Int32Value(42) /\ ret[key] = VInt32(42)
    /\ \E key \in DOMAIN arg.attrs : arg.attrs[key].tf = "int64" /\ key \notin DOMAIN ret

\* The known zero value of a basic kind.
KnownZero(v) ==
    CASE v.tf = "string" -> StringValue("")
      [] v.tf = "int32" -> Int32Value(0)
      [] v.tf = "bool" -> BoolValue(FALSE)

\* C12: for a string, int32 or bool attribute, the entry AttributesToNativeTypes
\* produces for a null or unknown value is never the entry it produces for the
\* known zero value of that kind ("", 0, false).
C12_NullNotZero ==
    pc = "native" =>
        \A key \in DOMAIN arg.attrs :
            (IsBasicKind(arg.attrs[key]) /\ arg.attrs[key].st # "known") =>
                \/ key \notin DOMAIN ret
                \/ ret[key] # AttributesToNativeTypes(key :> KnownZero(arg.attrs[key]))[key]

(***************************************************************************)
(* SpecWire: a data document of the controller, decoded as Read decodes it  *)
(* (GenericFromObject into a HostConfigDTO) and converted by                *)
(* ConvertToZitiResourceModel; and convertStringList on a *[]string.        *)
(***************************************************************************)
MaxChecks == 2

\* The choice of leaving a key out of the payload.
Absent == None

\* The payload with the keys that were not left out.
WithPresentKeys(choice) ==
    [key \in { k \in DOMAIN choice : choice[k] # Absent } |-> choice[key]]

WireNumber(n) == VFloat64(n, FALSE)

\* Every combination of present and absent fixed fields and forward flags.
ScalarPayloads ==
    { WithPresentKeys(choice) : choice \in
        [address : {Absent, VStr(""), VStr("localhost")},
         port : {Absent, WireNumber(0), WireNumber(5432)},
         protocol : {Absent, VStr("tcp")},
         forwardAddress : {Absent, VBool(FALSE), VBool(TRUE)},
         forwardPort : {Absent, VBool(FALSE), VBool(TRUE)},
         forwardProtocol : {Absent, VBool(TRUE)}] }

WirePortRange == VMap([low |-> WireNumber(80), high |-> WireNumber(443)])

\* The optional collections and listenOptions: absent, null, empty, filled.
CollectionPayloads ==
    { WithPresentKeys(choice) : choice \in
        [allowedProtocols : {Absent, VNil, VSlice(<<>>), VSlice(<<VStr("tcp"), VStr("udp")>>)},
         allowedAddresses : {Absent, VSlice(<<VStr("localhost")>>)},
         allowedSourceAddresses : {Absent, VNil},
         allowedPortRanges : {Absent, VNil, VSlice(<<WirePortRange>>)},
         listenOptions : {Absent, VNil, VMap([cost |-> WireNumber(10)])},
         portChecks : {Absent, VNil, VSlice(<<>>)},
         httpChecks : {Absent, VNil}] }

WireActionWithEvents ==
    VMap([trigger |-> VStr("fail"), duration |-> VStr("30s"),
          action |-> VStr("mark unhealthy"), consecutiveEvents |-> WireNumber(3)])

WireActionWithoutEvents ==
    VMap([trigger |-> VStr("pass"), duration |-> VStr("10s"), action |-> VStr("mark healthy")])

WireActionLists ==
    {Absent, VSlice(<<>>), VSlice(<<WireActionWithEvents>>), VSlice(<<WireActionWithoutEvents>>),
     VSlice(<<WireActionWithEvents, WireActionWithoutEvents>>)}

WirePortChecks ==
    { VMap(WithPresentKeys([address |-> VStr("localhost:5432"), interval |-> VStr("5s"),
                            timeout |-> VStr("10s"), actions |-> actions])) :
        actions \in WireActionLists }

WireHTTPCheck ==
    VMap([url |-> VStr("https://localhost/health"), method |-> VStr("GET"),
          expectStatus |-> WireNumber(200), interval |-> VStr("5s"), timeout |-> VStr("10s"),
          actions |-> VSlice(<<WireActionWithEvents>>)])

\* portChecks of up to MaxChecks entries, with or without one http check.
CheckPayloads ==
    { WithPresentKeys([address |-> VStr("localhost"), port |-> WireNumber(5432),
                       protocol |-> VStr("tcp"), portChecks |-> VSlice(checks),
                       httpChecks |-> http]) :
        checks \in UNION { [1..n -> WirePortChecks] : n \in 0..MaxChecks },
        http \in {Absent, VSlice(<<WireHTTPCheck>>)} }

WirePayloads == ScalarPayloads \cup CollectionPayloads \cup CheckPayloads

StringListPointers ==
    {NilPtr} \cup { Ptr(VSlice(s)) : s \in UNION { [1..n -> {VStr("one"), VStr("two")}] : n \in 0..MaxSliceLen } }

\* convertStringList: the null list for a nil pointer or an empty slice, else
\* types.ListValueFrom of the strings.
convertStringList(list) ==
    IF list.k # "nilptr" /\ Len(list.elem.elems) > 0
    THEN ListValue([i \in 1..Len(list.elem.elems) |-> StringValue(list.elem.elems[i].s)])
    ELSE ListNull

InitWire ==
    /\ \/ pc = "wire" /\ arg \in [payload : WirePayloads]
       \/ pc = "list" /\ arg \in [list : StringListPointers]
    /\ ret = None
    /\ ret2 = None
    /\ controller = None
    /\ state = None

\* var hostConfigDto HostConfigDTO; GenericFromObject(responseData, &hostConfigDto)
WireDecode ==
    /\ pc = "wire"
    /\ ret2' = GenericFromObject(arg.payload, TStruct("HostConfigDTO"))
    /\ pc' = "wire_decoded"
    /\ UNCHANGED <<arg, ret, controller, state>>

\* hostConfigDto.ConvertToZitiResourceModel(ctx)
WireConvert ==
    /\ pc = "wire_decoded"
    /\ ret' = ConvertToZitiResourceModel(ret2.dto)
    /\ pc' = IF ret'.panic THEN "wire_panicked" ELSE "wire_model"
    /\ UNCHANGED <<arg, ret2, controller, state>>

CallConvertStringList ==
    /\ pc = "list"
    /\ ret' = convertStringList(arg.list)
    /\ pc' = "list_converted"
    /\ UNCHANGED <<arg, ret2, controller, state>>

NextWire == WireDecode \/ WireConvert \/ CallConvertStringList

SpecWire == InitWire /\ [][NextWire]_vars

\* The fixed fields and forward flags: wire key, model attribute.
WireScalars ==
    {<<"address", "Address">>, <<"port", "Port">>, <<"protocol", "Protocol">>,
     <<"forwardAddress", "ForwardAddress">>, <<"forwardPort", "ForwardPort">>,
     <<"forwardProtocol", "ForwardProtocol">>}

\* The known framework value holding a wire value.
KnownOfWire(v) ==
    CASE v.k = "string" -> StringValue(v.s)
      [] v.k = "float64" -> Int32Value(v.n)
      [] v.k = "bool" -> BoolValue(v.b)

\* C13: for each of address, port, protocol, forwardAddress, forwardPort and
\* forwardProtocol the model attribute ConvertToZitiResourceModel yields is null
\* exactly when the key is absent from the payload and is otherwise known with
\* the payload's value (port 0, false and "" included), for every combination
\* of present and absent keys, and a payload without checks never crashes it.
C13_ScalarsReproduced ==
    /\ pc = "wire_model" =>
          \A ka \in WireScalars :
              IF ka[1] \in DOMAIN arg.payload
              THEN ret.res[ka[2]] = KnownOfWire(arg.payload[ka[1]])
              ELSE ret.res[ka[2]].st = "null"
    /\ pc = "wire_panicked" => DOMAIN arg.payload \cap {"portChecks", "httpChecks"} # {}

C13_Witness ==
    /\ pc = "wire_model"
    /\ DOMAIN arg.payload = {"port", "forwardPort", "address"}
    /\ ret.res.Port = Int32Value(0)
    /\ ret.res.ForwardPort = BoolValue(FALSE)
    /\ ret.res.Address = StringValue("")
    /\ ret.res.Protocol = StringNull

WireCollections ==
    {<<"allowedProtocols", "AllowedProtocols">>, <<"allowedAddresses", "AllowedAddresses">>,
     <<"allowedSourceAddresses", "AllowedSourceAddresses">>,
     <<"allowedPortRanges", "AllowedPortRanges">>, <<"portChecks", "PortChecks">>,
     <<"httpChecks", "HTTPChecks">>}

AbsentOrNil(payload, key) == key \notin DOMAIN payload \/ payload[key] = VNil

\* C14: when the wire field of an optional collection is absent or nil,
\* ConvertToZitiResourceModel sets the attribute to the null list (the null
\* object for listen_options), never to a known empty list; convertStringList
\* returns the null list for a nil or empty input and otherwise a known list
\* with the same elements in order.
C14_AbsentCollectionsNull ==
    /\ pc = "wire_model" =>
          /\ \A ka \in WireCollections :
                AbsentOrNil(arg.payload, ka[1]) => ret.res[ka[2]] = ListNull
          /\ AbsentOrNil(arg.payload, "listenOptions") => ret.res.ListenOptions = ObjectNull
    /\ pc = "list_converted" =>
          IF arg.list = NilPtr \/ Len(arg.list.elem.elems) = 0
          THEN ret = ListNull
          ELSE /\ ret.st = "known"
               /\ Len(ret.elems) = Len(arg.list.elem.elems)
               /\ \A i \in 1..Len(ret.elems) :
                     ret.elems[i] = StringValue(arg.list.elem.elems[i].s)

C14_Witness ==
    /\ pc = "wire_model"
    /\ "portChecks" \in DOMAIN arg.payload /\ arg.payload["portChecks"] = VNil
    /\ "httpChecks" \notin DOMAIN arg.payload
    /\ "listenOptions" \in DOMAIN arg.payload /\ arg.payload["listenOptions"] = VNil
    /\ ret.res.PortChecks = ListNull
    /\ ret.res.HTTPChecks = ListNull
    /\ ret.res.ListenOptions = ObjectNull

\* The actions a wire check entry carries.
WireActionsOf(entry) ==
    IF "actions" \in DOMAIN entry.m /\ entry.m["actions"].k = "slice"
    THEN entry.m["actions"].elems
    ELSE <<>>

HasWireChecks(payload, key) == key \in DOMAIN payload /\ payload[key].k = "slice"

\* The model check at position i keeps the actions of the wire entry.
ChecksReproduced(entries, list) ==
    /\ list.st = "known"
    /\ Len(list.elems) = Len(entries)
    /\ \A i \in 1..Len(entries) :
          /\ list.elems[i].st = "known"
          /\ list.elems[i].attrs["actions"].st = "known"
          /\ Len(list.elems[i].attrs["actions"].elems) = Len(WireActionsOf(entries[i]))
          /\ \A j \in 1..Len(WireActionsOf(entries[i])) :
                LET wire == WireActionsOf(entries[i])[j].m
                    action == list.elems[i].attrs["actions"].elems[j]
                IN /\ action.st = "known"
                   /\ action.attrs["trigger"] = StringValue(wire["trigger"].s)
                   /\ action.attrs["duration"] = StringValue(wire["duration"].s)
                   /\ action.attrs["action"] = StringValue(wire["action"].s)

\* C15: for a wire payload whose portChecks (or httpChecks) holds n entries,
\* entry i carrying m_i actions, ConvertToZitiResourceModel yields a known list
\* of n check objects in the same order whose i-th element has a nested actions
\* list of length m_i, each action keeping its trigger, duration and action.
C15_ChecksReproduced ==
    (pc \in {"wire_model", "wire_panicked"}) =>
        /\ HasWireChecks(arg.payload, "portChecks") =>
              pc = "wire_model" /\ ChecksReproduced(arg.payload["portChecks"].elems, ret.res.PortChecks)
        /\ HasWireChecks(arg.payload, "httpChecks") =>
              pc = "wire_model" /\ ChecksReproduced(arg.payload["httpChecks"].elems, ret.res.HTTPChecks)

\* C16: when an action of a wire check carries no consecutiveEvents,
\* ConvertToZitiResourceModel sets that action's consecutive_events to the
\* known value 1.
C16_ConsecutiveEventsDefault ==
    (pc = "wire_model" /\ HasWireChecks(arg.payload, "portChecks")) =>
        \A i \in 1..Len(arg.payload["portChecks"].elems) :
            \A j \in 1..Len(WireActionsOf(arg.payload["portChecks"].elems[i])) :
                "consecutiveEvents" \notin DOMAIN WireActionsOf(arg.payload["portChecks"].elems[i])[j].m =>
                    ret.res.PortChecks.elems[i].attrs["actions"].elems[j].attrs["consecutive_events"]
                        = Int32Value(1)

(***************************************************************************)
(* SpecRequest: the data payload Create and Update build from a plan,       *)
(* JsonStructToObject(ctx, plan.ToHostConfigDTO(ctx), true, true).          *)
(***************************************************************************)
MaxRanges == 2

PlannedRange(low, high) == ObjectValue([low |-> Int32Value(low), high |-> Int32Value(high)])

PlannedRanges ==
    UNION { [1..n -> {PlannedRange(80, 443), PlannedRange(1024, 2048)}] : n \in 1..MaxRanges }

\* Fixed port, or forwarding with the allowed ranges RequiredTogether asks for.
PlannedPorts ==
    {[Port |-> Int32Value(5432), ForwardPort |-> BoolNull, AllowedPortRanges |-> ListNull]}
    \cup { [Port |-> Int32Null, ForwardPort |-> BoolValue(TRUE),
            AllowedPortRanges |-> ListValue(ranges)] : ranges \in PlannedRanges }

PlannedFullListenOptions ==
    ObjectValue([bind_using_edge_identity |-> BoolValue(TRUE),
                 connect_timeout |-> StringValue("5s"), cost |-> Int32Value(10),
                 max_connections |-> Int32Value(3), precedence |-> StringValue("default")])

RequestPlans ==
    { [Name |-> StringValue("host"), ConfigTypeId |-> StringValue("NH5p4FpGR"),
       ID |-> StringUnknown,
       Address |-> StringValue("localhost"), ForwardAddress |-> BoolNull,
       Port |-> po.Port, ForwardPort |-> po.ForwardPort,
       Protocol |-> StringValue("tcp"), ForwardProtocol |-> BoolNull,
       AllowedProtocols |-> ListNull, AllowedAddresses |-> ListNull,
       AllowedSourceAddresses |-> ListNull, AllowedPortRanges |-> po.AllowedPortRanges,
       ListenOptions |-> lo, PortChecks |-> pcs, HTTPChecks |-> hcs] :
        po \in PlannedPorts,
        lo \in {ObjectNull, PlannedFullListenOptions},
        pcs \in {ListNull, ListValue(<<>>),
                 ListValue(<<PortCheckObject(ListValue(<<ActionObject>>))>>)},
        hcs \in {ListNull, ListValue(<<>>),
                 ListValue(<<HTTPCheckObject(ListValue(<<ActionObject>>))>>)} }

InitRequest ==
    /\ pc = "request_plan"
    /\ arg \in [plan : { m \in RequestPlans : ValidatorsAccept(m) /\ SchemaAccepts(m) }]
    /\ ret = None
    /\ ret2 = None
    /\ controller = None
    /\ state = None

\* requestObject := JsonStructToObject(ctx, plan.ToHostConfigDTO(ctx), true, true),
\* first half: ret holds plan.ToHostConfigDTO(ctx).
PlanToDTO ==
    /\ pc = "request_plan"
    /\ ret' = ToHostConfigDTO(arg.plan)
    /\ pc' = "request_dto"
    /\ UNCHANGED <<arg, ret2, controller, state>>

\* Second half: ret2 holds the requestObject and its error.
RequestObject ==
    /\ pc = "request_dto"
    /\ ret2' = JsonStructToObject(ret, TRUE, TRUE)
    /\ pc' = "request_object"
    /\ UNCHANGED <<arg, ret, controller, state>>

\* Create from the requestObject on: the config CreateConfig receives.
CreateRequest ==
    /\ pc = "request_object"
    /\ ~ret2.err
    /\ controller' = [name |-> ValueString(arg.plan.Name),
                      configTypeId |-> ValueString(arg.plan.ConfigTypeId),
                      id |-> "id-1",
                      data |-> Marshal(ret2.res)]
    /\ pc' = "create_sent"
    /\ UNCHANGED <<arg, ret, ret2, state>>

\* Update from the requestObject on: the config UpdateConfig receives.
UpdateRequest ==
    /\ pc = "request_object"
    /\ ~ret2.err
    /\ controller' = [name |-> ValueString(arg.plan.Name),
                      id |-> ValueString(arg.plan.ID),
                      data |-> Marshal(ret2.res)]
    /\ pc' = "update_sent"
    /\ UNCHANGED <<arg, ret, ret2, state>>

NextRequest == PlanToDTO \/ RequestObject \/ CreateRequest \/ UpdateRequest

SpecRequest == InitRequest /\ [][NextRequest]_vars

RequestSent == pc \in {"create_sent", "update_sent"}

\* C17: for a plan with port null, forward_port = true and a non-empty
\* allowed_port_ranges list, the data payload of Create and of Update has no
\* port key, has forwardPort = true, and has allowedPortRanges with one
\* {low, high} element per plan element, in the same order with the same values.
C17_ForwardingPayload ==
    (/\ RequestSent
     /\ arg.plan.Port = Int32Null
     /\ arg.plan.ForwardPort = BoolValue(TRUE)
     /\ Len(Elements(arg.plan.AllowedPortRanges)) > 0) =>
        LET ranges == Elements(arg.plan.AllowedPortRanges)
            data == controller.data.o
        IN /\ "port" \notin DOMAIN data
           /\ "forwardPort" \in DOMAIN data /\ data["forwardPort"] = JBool(TRUE)
           /\ "allowedPortRanges" \in DOMAIN data
           /\ data["allowedPortRanges"] =
                 JArr([i \in 1..Len(ranges) |->
                         JObj([low |-> JNum(ranges[i].attrs.low.n),
                               high |-> JNum(ranges[i].attrs.high.n)])])

C17_Witness ==
    /\ pc = "update_sent"
    /\ arg.plan.Port = Int32Null
    /\ arg.plan.ForwardPort = BoolValue(TRUE)
    /\ arg.plan.AllowedPortRanges = ListValue(<<PlannedRange(1024, 2048), PlannedRange(80, 443)>>)
    /\ Len(controller.data.o["allowedPortRanges"].a) = 2

RECURSIVE HoldsStruct(_)
\* A struct value is held somewhere in v: v itself, a map value, a slice
\* element or a pointer's target.
HoldsStruct(v) ==
    CASE v.k = "struct" -> TRUE
      [] v.k = "ptr" -> HoldsStruct(v.elem)
      [] v.k = "slice" -> \E i \in 1..Len(v.elems) : HoldsStruct(v.elems[i])
      [] v.k = "map" -> \E key \in DOMAIN v.m : HoldsStruct(v.m[key])
      [] OTHER -> FALSE

\* C24: JsonStructToObject converts nested data recursively: every struct
\* reachable from the input, the elements of a slice field included, appears
\* in the output as a key-value map, never as the original struct value.
C24_NestedStructsConverted ==
    (pc \in {"request_object", "create_sent", "update_sent"} /\ ~ret2.err) =>
        ~HoldsStruct(ret2.res)

IsNullOrEmptyList(list) == list.st = "null" \/ Len(Elements(list)) = 0

\* C18: whenever the plan's listen_options is null, or its port_checks or
\* http_checks list is null or empty, the ListenOptions, PortChecks or
\* HTTPChecks field of the DTO ToHostConfigDTO builds is a nil pointer.
C18_AbsentSubStructuresNil ==
    RequestSent =>
        /\ arg.plan.ListenOptions = ObjectNull => ret.f.ListenOptions = NilPtr
        /\ IsNullOrEmptyList(arg.plan.PortChecks) => ret.f.PortChecks = NilPtr
        /\ IsNullOrEmptyList(arg.plan.HTTPChecks) => ret.f.HTTPChecks = NilPtr

(***************************************************************************)
(* SpecRead: Read of the host-config resource and of the host-config data   *)
(* source against a controller that answers not-found, another error, or    *)
(* configs whose data may not fit HostConfigDTO.  The variable state holds  *)
(* resp: the state the call leaves and its diagnostics.                     *)
(***************************************************************************)
MaxConfigs == 2

\* resp.State after RemoveResource.
Removed == [k |-> "removed"]

\* The prior state req.State.Get hands to the resource Read.
ReadPriorStates ==
    { [Name |-> StringValue("host"), ConfigTypeId |-> StringValue("NH5p4FpGR"),
       ID |-> StringValue("id-1"),
       Address |-> StringValue("localhost"), ForwardAddress |-> BoolNull,
       Port |-> Int32Value(5432), ForwardPort |-> BoolNull,
       Protocol |-> StringValue("tcp"), ForwardProtocol |-> BoolNull,
       AllowedProtocols |-> ListNull, AllowedAddresses |-> ListNull,
       AllowedSourceAddresses |-> ListNull, AllowedPortRanges |-> ListNull,
       ListenOptions |-> lo, PortChecks |-> ListNull, HTTPChecks |-> ListNull] :
        lo \in {ObjectNull, PlannedFullListenOptions} }

\* The configuration req.Config.Get hands to the data-source Read.
ReadConfigs ==
    { [ID |-> StringValue("id-1"), Filter |-> StringNull, MostRecent |-> mr] :
        mr \in {BoolNull, BoolValue(FALSE), BoolValue(TRUE)} }

\* Config data as the controller returns it: values that fit the DTO fields
\* and values of another JSON type.
ReadPayloads ==
    { WithPresentKeys(choice) : choice \in
        [address : {VStr("localhost"), WireNumber(7)},
         port : {Absent, WireNumber(5432), VStr("abc")},
         protocol : {VStr("tcp")},
         listenOptions : {Absent, VMap([cost |-> WireNumber(10)]), VStr("none")},
         allowedProtocols : {Absent, VSlice(<<VStr("tcp")>>), VStr("tcp")}] }

ConfigDetail(data) ==
    [name |-> "host", id |-> "id-1", configTypeId |-> "NH5p4FpGR", data |-> data]

OtherConfig ==
    [name |-> "other", id |-> "id-2", configTypeId |-> "NH5p4FpGR",
     data |-> WithPresentKeys([address |-> VStr("example.org"), port |-> WireNumber(443),
                               protocol |-> VStr("tcp")])]

\* DetailConfig answers: not-found, another error, or the config.
DetailAnswers ==
    {[answer |-> "not_found"], [answer |-> "error"]}
    \cup { [answer |-> "ok", configs |-> <<ConfigDetail(data)>>] : data \in ReadPayloads }

\* ListConfigs answers: an error, or up to MaxConfigs configs.
ListAnswers ==
    {[answer |-> "error"], [answer |-> "ok", configs |-> <<>>]}
    \cup { [answer |-> "ok",
            configs |-> [i \in 1..n |-> IF i = 1 THEN ConfigDetail(data) ELSE OtherConfig]] :
             data \in ReadPayloads, n \in 1..MaxConfigs }

InitRead ==
    /\ pc = "read_start"
    /\ \/ /\ arg \in [kind : {"resource"}, prior : ReadPriorStates]
          /\ controller \in DetailAnswers
          /\ state = [State |-> arg.prior, Diagnostics |-> <<>>]
       \/ /\ arg \in [kind : {"data_source"}, config : ReadConfigs]
          /\ controller \in ListAnswers
          /\ state = [State |-> None, Diagnostics |-> <<>>]
    /\ ret = None
    /\ ret2 = None

\* resp.State as the call found it.
StateBeforeRead == IF arg.kind = "resource" THEN arg.prior ELSE None

AddError(resp, summary) == [resp EXCEPT !.Diagnostics = Append(@, summary)]

\* Variant of DetailNotFound that reports not-found like any other error.
DetailNotFoundReported ==
    /\ pc = "read_start"
    /\ arg.kind = "resource"
    /\ controller.answer = "not_found"
    /\ state' = AddError(state, "Error Reading Ziti Config from API")
    /\ pc' = "read_done"
    /\ UNCHANGED <<arg, ret, ret2, controller>>

\* Resource Read, err is *config.DetailConfigNotFound:
\* resp.State.RemoveResource(ctx); return.
DetailNotFound ==
    /\ pc = "read_start"
    /\ arg.kind = "resource"
    /\ controller.answer = "not_found"
    /\ state' = [state EXCEPT !.State = Removed]
    /\ pc' = "read_done"
    /\ UNCHANGED <<arg, ret, ret2, controller>>

\* Either Read, the API call fails otherwise: AddError; return.
ReadFailed ==
    /\ pc = "read_start"
    /\ controller.answer = "error"
    /\ state' = AddError(state, "Error Reading Ziti Config from API")
    /\ pc' = "read_done"
    /\ UNCHANGED <<arg, ret, ret2, controller>>

\* Data-source Read: several configs without most_recent, or none.
ListRejected ==
    /\ pc = "read_start"
    /\ arg.kind = "data_source"
    /\ controller.answer = "ok"
    /\ LET n == Len(controller.configs)
           several == n > 1 /\ ~ValueBool(arg.config.MostRecent)
       IN /\ several \/ n = 0
          /\ state' = IF several
                      THEN AddError(state, "Multiple items returned from API upon filter execution!")
                      ELSE AddError(state, "No items returned from API upon filter execution!")
    /\ pc' = "read_done"
    /\ UNCHANGED <<arg, ret, ret2, controller>>

\* Variant of DecodeConfig that goes on with the first config however many
\* the controller lists.
DecodeConfigAnyCount ==
    /\ pc = "read_start"
    /\ controller.answer = "ok"
    /\ Len(controller.configs) > 0
    /\ ret2' = GenericFromObject(controller.configs[1].data, TStruct("HostConfigDTO"))
    /\ pc' = "config_decoded"
    /\ UNCHANGED <<arg, ret, controller, state>>

\* var hostConfigDto HostConfigDTO; GenericFromObject(responseData, &hostConfigDto):
\* ret2 holds the dto and the error the call returns.
DecodeConfig ==
    /\ pc = "read_start"
    /\ controller.answer = "ok"
    /\ Len(controller.configs) > 0
    /\ arg.kind = "data_source" =>
          ~(Len(controller.configs) > 1 /\ ~ValueBool(arg.config.MostRecent))
    /\ ret2' = GenericFromObject(controller.configs[1].data, TStruct("HostConfigDTO"))
    /\ pc' = "config_decoded"
    /\ UNCHANGED <<arg, ret, controller, state>>

\* hostConfigDto.ConvertToZitiResourceModel(ctx)
ConvertConfig ==
    /\ pc = "config_decoded"
    /\ ret' = ConvertToZitiResourceModel(ret2.dto)
    /\ pc' = "config_converted"
    /\ UNCHANGED <<arg, ret2, controller, state>>

ResourceModelToDataSourceModel(resourceModel) ==
    [Name |-> resourceModel.Name,
     Address |-> resourceModel.Address,
     Port |-> resourceModel.Port,
     Protocol |-> resourceModel.Protocol,
     ForwardProtocol |-> resourceModel.ForwardProtocol,
     ForwardPort |-> resourceModel.ForwardPort,
     ForwardAddress |-> resourceModel.ForwardAddress,
     AllowedProtocols |-> resourceModel.AllowedProtocols,
     AllowedAddresses |-> resourceModel.AllowedAddresses,
     AllowedSourceAddresses |-> resourceModel.AllowedSourceAddresses,
     AllowedPortRanges |-> resourceModel.AllowedPortRanges,
     ListenOptions |-> resourceModel.ListenOptions,
     PortChecks |-> resourceModel.PortChecks,
     HTTPChecks |-> resourceModel.HTTPChecks,
     ID |-> StringNull, Filter |-> StringNull, MostRecent |-> BoolNull,
     ConfigTypeID |-> StringNull]

\* The rest of either Read: the identifying attributes, then resp.State.Set.
SetReadState ==
    /\ pc = "config_converted"
    /\ IF ret.panic
       THEN pc' = "read_panicked" /\ state' = state
       ELSE /\ pc' = "read_done"
            /\ state' =
                 [state EXCEPT !.State =
                    IF arg.kind = "resource"
                    THEN [ret.res EXCEPT !.Name = StringValue(controller.configs[1].name),
                                         !.ID = arg.prior.ID,
                                         !.ConfigTypeId = arg.prior.ConfigTypeId]
                    ELSE [ResourceModelToDataSourceModel(ret.res) EXCEPT
                             !.ID = StringValue(controller.configs[1].id),
                             !.Filter = arg.config.Filter,
                             !.MostRecent = arg.config.MostRecent,
                             !.ConfigTypeID = StringValue(controller.configs[1].configTypeId)]]
    /\ UNCHANGED <<arg, ret, ret2, controller>>

NextRead ==
    DetailNotFound \/ ReadFailed \/ ListRejected \/ DecodeConfig \/ ConvertConfig \/ SetReadState

SpecRead == InitRead /\ [][NextRead]_vars

\* GenericFromObject returned an error for the config this call decoded.
ConversionFailed == "err" \in DOMAIN ret2 /\ ret2.err

\* C19: if converting the controller's response into the host-config DTO
\* fails, resource Read and data-source Read report an error diagnostic and
\* write no state.
C19_ConversionFailureAborts ==
    (pc = "read_done" /\ ConversionFailed) =>
        /\ state.Diagnostics # <<>>
        /\ state.State = StateBeforeRead

\* C20: when the controller answers a resource Read with not-found, Read
\* removes the resource from state, reports no error diagnostic and writes
\* nothing else.
C20_NotFoundRemovesResource ==
    (pc = "read_done" /\ arg.kind = "resource" /\ controller.answer = "not_found") =>
        /\ state.State = Removed
        /\ state.Diagnostics = <<>>

C20_Witness ==
    /\ pc = "read_done"
    /\ arg.kind = "resource"
    /\ arg.prior.ListenOptions = PlannedFullListenOptions
    /\ controller.answer = "not_found"
    /\ state.State = Removed

(***************************************************************************)
(* SpecLifecycle: Create, Read, Update and Delete of one host-config        *)
(* resource, one call after the other, against a controller whose API call  *)
(* may fail.  state holds the tracked state and the diagnostics of the last *)
(* call, controller the stored config and the API calls the last call made, *)
(* arg the last request with the state it found.                            *)
(***************************************************************************)
MaxCalls == 3

ControllerIds == <<"id-1", "id-2", "id-3", "id-4">>

\* Plans of the configuration: three shapes of data, the default or a
\* configured config_type_id.
LifecyclePlans ==
    { [Name |-> StringValue("host"), ConfigTypeId |-> StringValue(ct),
       ID |-> StringUnknown,
       Address |-> StringValue("localhost"), ForwardAddress |-> BoolNull,
       Port |-> po.Port, ForwardPort |-> po.ForwardPort,
       Protocol |-> StringValue("tcp"), ForwardProtocol |-> BoolNull,
       AllowedProtocols |-> ListNull, AllowedAddresses |-> ListNull,
       AllowedSourceAddresses |-> ListNull, AllowedPortRanges |-> po.AllowedPortRanges,
       ListenOptions |-> ObjectNull, PortChecks |-> po.PortChecks, HTTPChecks |-> ListNull] :
        ct \in {"NH5p4FpGR", "cea49285"},
        po \in {[Port |-> Int32Value(5432), ForwardPort |-> BoolNull,
                 AllowedPortRanges |-> ListNull, PortChecks |-> ListNull],
                [Port |-> Int32Null, ForwardPort |-> BoolValue(TRUE),
                 AllowedPortRanges |-> ListValue(<<PlannedRange(80, 443)>>),
                 PortChecks |-> ListNull],
                [Port |-> Int32Value(8080), ForwardPort |-> BoolNull,
                 AllowedPortRanges |-> ListNull,
                 PortChecks |-> ListValue(<<PortCheckObject(ListValue(<<>>))>>)]} }

InitLifecycle ==
    /\ pc = "absent"
    /\ arg = [op |-> "none", n |-> 0]
    /\ ret = None
    /\ ret2 = None
    /\ controller = [config |-> None, calls |-> 0]
    /\ state = [State |-> None, Diagnostics |-> <<>>]

\* resp.Diagnostics.AddError(summary, "Could not ... Ziti Config "+id+": "+err.Error())
AddErrorNaming(resp, summary, id) ==
    [resp EXCEPT !.Diagnostics = Append(@, [summary |-> summary, id |-> id])]

\* A call starts with the state it is given and no diagnostics.
Request(resp) == [resp EXCEPT !.Diagnostics = <<>>]

\* Create from the requestObject on: [resp, controller, pc] as the call leaves them.
CreateFrom(plan, requestObject, fails, n, resp, stored) ==
    IF requestObject.err
    THEN [resp |-> AddErrorNaming(resp, "Error marshalling Ziti Config from API",
                                  ValueString(plan.ID)),
          controller |-> [stored EXCEPT !.calls = 0], pc |-> "absent"]
    ELSE IF fails
    THEN [resp |-> AddErrorNaming(resp, "Error Creating Ziti Config from API",
                                  ValueString(plan.ID)),
          controller |-> [stored EXCEPT !.calls = 1], pc |-> "absent"]
    ELSE [resp |-> [resp EXCEPT !.State = [plan EXCEPT !.ID = StringValue(ControllerIds[n])]],
          controller |-> [config |-> [name |-> ValueString(plan.Name),
                                      configTypeId |-> ValueString(plan.ConfigTypeId),
                                      id |-> ControllerIds[n],
                                      data |-> Marshal(requestObject.res)],
                          calls |-> 1],
          pc |-> "tracked"]

HostCreate ==
    /\ pc = "absent"
    /\ arg.n < MaxCalls
    /\ \E plan \in LifecyclePlans, fails \in BOOLEAN :
          /\ arg' = [op |-> "create", n |-> arg.n + 1, plan |-> plan, fails |-> fails,
                     before |-> state.State]
          /\ ret' = CreateFrom(plan, JsonStructToObject(ToHostConfigDTO(plan), TRUE, TRUE),
                               fails, arg.n + 1, Request(state), controller)
    /\ state' = ret'.resp
    /\ controller' = ret'.controller
    /\ pc' = ret'.pc
    /\ UNCHANGED ret2

\* Update from the requestObject on.
UpdateFrom(plan, requestObject, fails, resp, stored) ==
    IF requestObject.err
    THEN [resp |-> AddErrorNaming(resp, "Error marshalling Ziti Config from API",
                                  ValueString(plan.ID)),
          controller |-> [stored EXCEPT !.calls = 0]]
    ELSE IF fails
    THEN [resp |-> AddErrorNaming(resp, "Error Updating Ziti Config from API",
                                  ValueString(plan.ID)),
          controller |-> [stored EXCEPT !.calls = 1]]
    ELSE [resp |-> [resp EXCEPT !.State = plan],
          controller |-> [config |-> [stored.config EXCEPT
                                         !.name = ValueString(plan.Name),
                                         !.data = Marshal(requestObject.res)],
                          calls |-> 1]]

\* The plan of an update: id comes from the state (UseStateForUnknown).
HostUpdate ==
    /\ pc = "tracked"
    /\ arg.n < MaxCalls
    /\ \E config \in LifecyclePlans, fails \in BOOLEAN :
          /\ arg' = [op |-> "update", n |-> arg.n + 1,
                     plan |-> [config EXCEPT !.ID = state.State.ID], fails |-> fails,
                     before |-> state.State]
          /\ ret' = UpdateFrom(arg'.plan,
                               JsonStructToObject(ToHostConfigDTO(config), TRUE, TRUE),
                               fails, Request(state), controller)
    /\ state' = ret'.resp
    /\ controller' = ret'.controller
    /\ pc' = "tracked"
    /\ UNCHANGED ret2

\* Delete; after a call without error the framework drops the resource.
HostDelete ==
    /\ pc = "tracked"
    /\ arg.n < MaxCalls
    /\ \E fails \in BOOLEAN :
          /\ arg' = [op |-> "delete", n |-> arg.n + 1, fails |-> fails,
                     before |-> state.State]
          /\ IF fails
             THEN /\ state' = AddErrorNaming(Request(state), "Error Creating Ziti Config from API",
                                             ValueString(state.State.ID))
                  /\ controller' = [controller EXCEPT !.calls = 1]
                  /\ pc' = "tracked"
             ELSE /\ state' = [State |-> None, Diagnostics |-> <<>>]
                  /\ controller' = [config |-> None, calls |-> 1]
                  /\ pc' = "absent"
    /\ UNCHANGED <<ret, ret2>>

\* Read up to the controller's answer: not-found (the config was removed
\* behind the provider's back), another error, or the stored config, whose
\* data GenericFromObject decodes into ret2.
HostRead ==
    /\ pc = "tracked"
    /\ arg.n < MaxCalls
    /\ \E answer \in {"ok", "error", "not_found"} :
          /\ arg' = [op |-> "read", n |-> arg.n + 1, fails |-> answer = "error",
                     answer |-> answer, before |-> state.State]
          /\ CASE answer = "not_found" ->
                    /\ state' = [State |-> None, Diagnostics |-> <<>>]
                    /\ controller' = [config |-> None, calls |-> 1]
                    /\ pc' = "absent"
                    /\ UNCHANGED <<ret, ret2>>
               [] answer = "error" ->
                    /\ state' = AddErrorNaming(Request(state), "Error Reading Ziti Config from API",
                                               ValueString(state.State.ID))
                    /\ controller' = [controller EXCEPT !.calls = 1]
                    /\ pc' = "tracked"
                    /\ UNCHANGED <<ret, ret2>>
               [] answer = "ok" ->
                    /\ state' = Request(state)
                    /\ controller' = [controller EXCEPT !.calls = 1]
                    /\ ret' = FromJSON(controller.config.data)
                    /\ ret2' = GenericFromObject(ret'.m, TStruct("HostConfigDTO"))
                    /\ pc' = "reading"

\* newState := hostConfigDto.ConvertToZitiResourceModel(ctx)
HostReadConvert ==
    /\ pc = "reading"
    /\ ret' = ConvertToZitiResourceModel(ret2.dto)
    /\ pc' = "read_model"
    /\ UNCHANGED <<arg, ret2, controller, state>>

\* The rest of Read: name from the controller, id and config_type_id from
\* the prior state, resp.State.Set.
HostReadSet ==
    /\ pc = "read_model"
    /\ IF ret.panic
       THEN pc' = "read_crashed" /\ state' = state
       ELSE /\ pc' = "tracked"
            /\ state' = [state EXCEPT !.State =
                            [ret.res EXCEPT !.Name = StringValue(controller.config.name),
                                            !.ID = state.State.ID,
                                            !.ConfigTypeId = state.State.ConfigTypeId]]
    /\ UNCHANGED <<arg, ret, ret2, controller>>

NextLifecycle ==
    HostCreate \/ HostUpdate \/ HostDelete \/ HostRead \/ HostReadConvert \/ HostReadSet

SpecLifecycle == InitLifecycle /\ [][NextLifecycle]_vars

\* The last call has returned, and its API call failed.
CallFailed == pc \in {"absent", "tracked"} /\ arg.op # "none" /\ arg.fails

\* C21: when the controller's API call fails in Create, Update, Delete or
\* Read, the call reports one error diagnostic that names the attempted
\* identifier, makes one API call only, and leaves the state as it found it.
C21_FailedCallKeepsState ==
    CallFailed =>
        /\ Len(state.Diagnostics) = 1
        /\ state.Diagnostics[1].id # ""
        /\ controller.calls = 1
        /\ state.State = arg.before

\* C25: after a successful Create the state holds the plan with the id the
\* controller returned, and after any following successful Read and Update
\* calls the state's id is that id and its config_type_id the created value.
C25_IdentityKept ==
    /\ (pc = "tracked" /\ arg.op = "create") =>
          state.State = [arg.plan EXCEPT !.ID = StringValue(controller.config.id)]
    /\ pc = "tracked" =>
          /\ state.State.ID = StringValue(controller.config.id)
          /\ state.State.ConfigTypeId = StringValue(controller.config.configTypeId)

\* C22: a data-source Read that returns has written state only from the first
\* config listed: with no match, or with several and most_recent not true, it
\* reports an error diagnostic and writes no state; with one match, or
\* several and most_recent = true, it reports none and the state's id is the
\* first match's id.
C22_FirstMatchOnly ==
    (pc = "read_done" /\ arg.kind = "data_source" /\ controller.answer = "ok") =>
        LET n == Len(controller.configs)
            mostRecent == arg.config.MostRecent = BoolValue(TRUE)
        IN IF n = 0 \/ (n > 1 /\ ~mostRecent)
           THEN state.Diagnostics # <<>> /\ state.State = None
           ELSE /\ state.Diagnostics = <<>>
                /\ state.State.ID = StringValue(controller.configs[1].id)

C22_Witness ==
    /\ pc = "read_done"
    /\ arg.kind = "data_source"
    /\ controller.answer = "ok"
    /\ Len(controller.configs) = 2
    /\ arg.config.MostRecent = BoolValue(TRUE)
    /\ state.State.ID = StringValue("id-1")

(***************************************************************************)
(* SpecConcurrent: two lifecycle calls run their conversions at the same    *)
(* time, each for its own entity, one step of one call after the other.     *)
(* state holds the package-level shape descriptors both calls read; pc,     *)
(* arg, ret and ret2 hold each call's position, entity and local values.    *)
(***************************************************************************)
Calls == {"first", "second"}

\* var AllowedPortRangeModel, ListenOptionsModel, CheckActionModel,
\* PortCheckModel, HTTPCheckModel
PackageDescriptors ==
    [AllowedPortRangeModel |-> AllowedPortRangeModel,
     ListenOptionsModel |-> ListenOptionsModel,
     CheckActionModel |-> CheckActionModel,
     PortCheckModel |-> PortCheckModel,
     HTTPCheckModel |-> HTTPCheckModel]

WirePortCheckWithAction ==
    VMap([address |-> VStr("localhost:5432"), interval |-> VStr("5s"),
          timeout |-> VStr("10s"), actions |-> VSlice(<<WireActionWithEvents>>)])

\* The entity of a call: a controller response to convert for Read, or a
\* plan to convert for Create or Update.
ConcurrentEntities ==
    { [kind |-> "read", payload |-> payload] : payload \in
        { WithPresentKeys([address |-> VStr("localhost"), port |-> WireNumber(5432),
                           protocol |-> VStr("tcp"), portChecks |-> checks,
                           httpChecks |-> http,
                           allowedPortRanges |-> Absent]) :
            checks \in {Absent, VSlice(<<WirePortCheckWithAction>>)},
            http \in {Absent, VSlice(<<WireHTTPCheck>>)} } }
    \cup { [kind |-> "create", plan |-> plan] :
             plan \in { m \in LifecyclePlans : m.ConfigTypeId = StringValue("NH5p4FpGR") } }

InitConcurrent ==
    /\ pc = [c \in Calls |-> "start"]
    /\ arg \in [Calls -> ConcurrentEntities]
    /\ ret = [c \in Calls |-> None]
    /\ ret2 = [c \in Calls |-> None]
    /\ controller = None
    /\ state = PackageDescriptors

\* Read: GenericFromObject(responseData, &hostConfigDto)
CallDecode(c) ==
    /\ pc[c] = "start"
    /\ arg[c].kind = "read"
    /\ ret2' = [ret2 EXCEPT ![c] = GenericFromObject(arg[c].payload, TStruct("HostConfigDTO")).dto]
    /\ pc' = [pc EXCEPT ![c] = "decoded"]
    /\ UNCHANGED <<arg, ret, controller, state>>

\* ConvertToZitiResourceModel up to the checks: scalars, string lists,
\* port ranges and listen options.
FieldsFrom(dto) ==
    [Name |-> StringNull,
     ConfigTypeId |-> StringNull,
     ID |-> StringNull,
     Address |-> StringPointerValue(dto.f.Address),
     Port |-> Int32PointerValue(dto.f.Port),
     Protocol |-> StringPointerValue(dto.f.Protocol),
     ForwardProtocol |-> BoolPointerValue(dto.f.ForwardProtocol),
     ForwardPort |-> BoolPointerValue(dto.f.ForwardPort),
     ForwardAddress |-> BoolPointerValue(dto.f.ForwardAddress),
     AllowedProtocols |-> StringListFrom(dto.f.AllowedProtocols),
     AllowedAddresses |-> StringListFrom(dto.f.AllowedAddresses),
     AllowedSourceAddresses |-> StringListFrom(dto.f.AllowedSourceAddresses),
     AllowedPortRanges |-> AllowedPortRangesFrom(dto.f.AllowedPortRanges),
     ListenOptions |-> ListenOptionsFrom(dto.f.ListenOptions),
     HTTPChecks |-> ListNull,
     PortChecks |-> ListNull]

CallConvertFields(c) ==
    /\ pc[c] = "decoded"
    /\ ret' = [ret EXCEPT ![c] = FieldsFrom(ret2[c])]
    /\ pc' = [pc EXCEPT ![c] = "fields"]
    /\ UNCHANGED <<arg, ret2, controller, state>>

\* The HTTPChecks branch, reading HTTPCheckModel.
CallConvertHTTPChecks(c) ==
    /\ pc[c] = "fields"
    /\ IF ChecksPanic(ret2[c].f.HTTPChecks)
       THEN pc' = [pc EXCEPT ![c] = "panicked"] /\ ret' = ret
       ELSE /\ pc' = [pc EXCEPT ![c] = "http_checks"]
            /\ ret' = [ret EXCEPT ![c].HTTPChecks =
                          ChecksFrom(ret2[c].f.HTTPChecks, state.HTTPCheckModel)]
    /\ UNCHANGED <<arg, ret2, controller, state>>

\* Variant of the PortChecks branch that deletes "actions" from the shared
\* PortCheckModel instead of from the call's own portCheckObject.
CallConvertPortChecksSharedDelete(c) ==
    /\ pc[c] = "http_checks"
    /\ IF ChecksPanic(ret2[c].f.PortChecks)
       THEN pc' = [pc EXCEPT ![c] = "panicked"] /\ ret' = ret
       ELSE /\ pc' = [pc EXCEPT ![c] = "done"]
            /\ ret' = [ret EXCEPT ![c].PortChecks =
                          ChecksFrom(ret2[c].f.PortChecks, state.PortCheckModel)]
    /\ state' = [state EXCEPT !.PortCheckModel = WithoutActions(@)]
    /\ UNCHANGED <<arg, ret2, controller>>

\* The PortChecks branch, reading PortCheckModel; the call returns res.
CallConvertPortChecks(c) ==
    /\ pc[c] = "http_checks"
    /\ IF ChecksPanic(ret2[c].f.PortChecks)
       THEN pc' = [pc EXCEPT ![c] = "panicked"] /\ ret' = ret
       ELSE /\ pc' = [pc EXCEPT ![c] = "done"]
            /\ ret' = [ret EXCEPT ![c].PortChecks =
                          ChecksFrom(ret2[c].f.PortChecks, state.PortCheckModel)]
    /\ UNCHANGED <<arg, ret2, controller, state>>

\* Create and Update: plan.ToHostConfigDTO(ctx)
CallPlanToDTO(c) ==
    /\ pc[c] = "start"
    /\ arg[c].kind = "create"
    /\ ret2' = [ret2 EXCEPT ![c] = ToHostConfigDTO(arg[c].plan)]
    /\ pc' = [pc EXCEPT ![c] = "dto"]
    /\ UNCHANGED <<arg, ret, controller, state>>

\* JsonStructToObject(ctx, dto, true, true)
CallDTOToObject(c) ==
    /\ pc[c] = "dto"
    /\ ret' = [ret EXCEPT ![c] = JsonStructToObject(ret2[c], TRUE, TRUE)]
    /\ pc' = [pc EXCEPT ![c] = "done"]
    /\ UNCHANGED <<arg, ret2, controller, state>>

NextConcurrent ==
    \E c \in Calls :
        \/ CallDecode(c)
        \/ CallConvertFields(c)
        \/ CallConvertHTTPChecks(c)
        \/ CallConvertPortChecks(c)
        \/ CallPlanToDTO(c)
        \/ CallDTOToObject(c)

SpecConcurrent == InitConcurrent /\ [][NextConcurrent]_vars

\* What the call for an entity returns when it runs alone.
ResultAlone(entity) ==
    IF entity.kind = "read"
    THEN ConvertToZitiResourceModel(
             GenericFromObject(entity.payload, TStruct("HostConfigDTO")).dto).res
    ELSE JsonStructToObject(ToHostConfigDTO(entity.plan), TRUE, TRUE)

\* C23: the conversions never write the package-level shape descriptors, and
\* under every interleaving of two calls each call's result equals the
\* result it gives when run alone.
C23_CallsIndependent ==
    /\ state = PackageDescriptors
    /\ \A c \in Calls : pc[c] = "done" => ret[c] = ResultAlone(arg[c])

C23_Witness ==
    /\ pc["first"] = "done" /\ pc["second"] = "done"
    /\ arg["first"].kind = "read" /\ arg["second"].kind = "read"
    /\ arg["first"] # arg["second"]
    /\ ret["first"].PortChecks # ListNull
    /\ ret["second"].PortChecks # ListNull

(***************************************************************************)
(* SpecForward: the payload of Create and Update for plans over every       *)
(* value of the forward flags and of port, the ones the validators would    *)
(* refuse included.                                                         *)
(***************************************************************************)
ForwardPlans ==
    { [Name |-> StringValue("host"), ConfigTypeId |-> StringValue("NH5p4FpGR"),
       ID |-> StringUnknown,
       Address |-> StringValue("localhost"), ForwardAddress |-> fa,
       Port |-> po, ForwardPort |-> fpo,
       Protocol |-> StringValue("tcp"), ForwardProtocol |-> fpr,
       AllowedProtocols |-> ListNull, AllowedAddresses |-> ListNull,
       AllowedSourceAddresses |-> ListNull, AllowedPortRanges |-> ListNull,
       ListenOptions |-> ObjectNull, PortChecks |-> ListNull, HTTPChecks |-> ListNull] :
        fa \in BoolValues, fpo \in BoolValues, fpr \in BoolValues,
        po \in {Int32Null, Int32Value(-1), Int32Value(0), Int32Value(5432)} }

InitForward ==
    /\ pc = "request_plan"
    /\ arg \in [plan : ForwardPlans]
    /\ ret = None
    /\ ret2 = None
    /\ controller = None
    /\ state = None

SpecForward == InitForward /\ [][NextRequest]_vars

ForwardKeys == {"forwardAddress", "forwardPort", "forwardProtocol"}

\* C26: in every data payload Create or Update sends, each of forwardAddress,
\* forwardPort and forwardProtocol is absent or true, and port is absent or
\* greater than 0.
C26_ForwardFlagsTrueOrAbsent ==
    RequestSent =>
        LET data == controller.data.o
        IN /\ \A key \in ForwardKeys : key \in DOMAIN data => data[key] = JBool(TRUE)
           /\ "port" \in DOMAIN data => data["port"].j = "number" /\ data["port"].n > 0

C26_Witness ==
    /\ pc = "create_sent"
    /\ arg.plan.ForwardAddress = BoolValue(FALSE)
    /\ arg.plan.ForwardPort = BoolNull
    /\ arg.plan.ForwardProtocol = BoolValue(TRUE)
    /\ arg.plan.Port = Int32Value(0)
    /\ DOMAIN controller.data.o \cap (ForwardKeys \cup {"port"}) = {"forwardProtocol"}

\* A wire check entry that carries no actions key.
WithoutActionsKey(entry) == "actions" \notin DOMAIN entry.m

\* C27: ConvertToZitiResourceModel completes without crashing for every DTO
\* GenericFromObject decodes, a portChecks or httpChecks entry without an
\* actions key included, and the check object of such an entry has a null or
\* empty actions list.
C27_ConvertNeverCrashes ==
    (pc \in {"wire_model", "wire_panicked"} /\ ~ret2.err) =>
        /\ pc = "wire_model"
        /\ HasWireChecks(arg.payload, "portChecks") =>
              LET entries == arg.payload["portChecks"].elems
              IN \A i \in 1..Len(entries) :
                    WithoutActionsKey(entries[i]) =>
                        /\ ret.res.PortChecks.st = "known"
                        /\ i <= Len(ret.res.PortChecks.elems)
                        /\ IsNullOrEmptyList(ret.res.PortChecks.elems[i].attrs["actions"])

(***************************************************************************)
(* SpecPosture: Read of the posture-check data sources (domains and         *)
(* multi-process) against a controller that holds posture checks.           *)
(***************************************************************************)
MaxPosture == 2

\* Posture checks a controller can hold, of the two kinds.
PostureChecks ==
    {[id |-> "pc-1", name |-> "office", typeId |-> "DOMAIN", domains |-> <<"example.com">>],
     [id |-> "pc-2", name |-> "lab", typeId |-> "DOMAIN", domains |-> <<"lab.example.com">>],
     [id |-> "pc-3", name |-> "tools", typeId |-> "PROCESS_MULTI", semantic |-> "AllOf"],
     [id |-> "pc-4", name |-> "agents", typeId |-> "PROCESS_MULTI", semantic |-> "OneOf"]}

PostureLists ==
    { list \in UNION { [1..n -> PostureChecks] : n \in 0..MaxPosture } :
        \A i, j \in 1..Len(list) : i # j => list[i] # list[j] }

\* Configurations ConfigValidators accepts: exactly one of id, filter, name.
PostureSelectors ==
    { [ID |-> StringValue(id), Name |-> StringNull, Filter |-> StringNull] : id \in {"pc-2", "pc-4"} }
    \cup { [ID |-> StringNull, Name |-> StringValue(name), Filter |-> StringNull] :
            name \in {"lab", "agents"} }
    \cup { [ID |-> StringNull, Name |-> StringNull, Filter |-> StringValue(filter)] :
            filter \in {"name = \"lab\"", "id = \"pc-4\""} }

PostureConfigs ==
    { [ID |-> s.ID, Name |-> s.Name, Filter |-> s.Filter, MostRecent |-> mr] :
        s \in PostureSelectors, mr \in BoolValues }

InitPosture ==
    /\ pc = "posture_start"
    /\ arg \in [source : {"domains", "multi_process"}, config : PostureConfigs,
                answer : {"ok", "error"}]
    /\ controller \in PostureLists
    /\ state = [State |-> None, Diagnostics |-> <<>>]
    /\ ret = None
    /\ ret2 = None

\* filter := "" ; id = "<id>" / name = "<name>" / state.Filter.ValueString()
PostureFilter(config) ==
    IF ValueString(config.ID) # "" THEN "id = \"" \o ValueString(config.ID) \o "\""
    ELSE IF ValueString(config.Name) # "" THEN "name = \"" \o ValueString(config.Name) \o "\""
    ELSE ValueString(config.Filter)

\* posture_checks.NewListPostureChecksParams(); params.Limit = &limit;
\* params.Offset = &offset. Filter is left as the constructor made it.
PostureParams == [Limit |-> Ptr(VInt(1000)), Offset |-> Ptr(VInt(0)), Filter |-> NilPtr]

\* The controller's evaluation of a filter expression on one posture check.
PostureMatches(check, filter) ==
    \/ filter = "id = \"" \o check.id \o "\""
    \/ filter = "name = \"" \o check.name \o "\""

\* The list query: every posture check when params.Filter is nil, the matching
\* ones otherwise.
ListPostureChecks(params, checks) ==
    IF params.Filter = NilPtr THEN checks
    ELSE SelectSeq(checks, LAMBDA check : PostureMatches(check, params.Filter.elem.s))

\* d.client.API.PostureChecks.ListPostureChecks(params, nil)
PostureList ==
    /\ pc = "posture_start"
    /\ ret' = [filter |-> PostureFilter(arg.config), params |-> PostureParams]
    /\ IF arg.answer = "error"
       THEN /\ ret2' = None
            /\ state' = AddError(state, "Error Reading Ziti Config from API")
            /\ pc' = "posture_done"
       ELSE /\ ret2' = ListPostureChecks(ret'.params, controller)
            /\ state' = state
            /\ pc' = "posture_listed"
    /\ UNCHANGED <<arg, controller>>

\* Domains: the listed checks that are *PostureCheckDomainDetail.
\* Multi-process: data.Payload.Data() as it is.
PostureCandidates(source, listed) ==
    IF source = "domains"
    THEN SelectSeq(listed, LAMBDA check : check.typeId = "DOMAIN")
    ELSE listed

StringList(strings) == ListValue([i \in 1..Len(strings) |-> StringValue(strings[i])])

\* The state the Read writes for posture_checks[0].
PostureState(source, config, check) ==
    IF source = "domains"
    THEN [ID |-> StringValue(check.id), Name |-> StringValue(check.name),
          Filter |-> config.Filter, MostRecent |-> config.MostRecent,
          Domains |-> StringList(check.domains), Semantic |-> StringNull]
    ELSE [ID |-> config.ID, Name |-> StringValue(check.name),
          Filter |-> config.Filter, MostRecent |-> config.MostRecent,
          Domains |-> ListNull, Semantic |-> StringValue(check.semantic)]

PostureChosen(source, config, candidates, resp) ==
    IF Len(candidates) > 1 /\ ~ValueBool(config.MostRecent)
    THEN [pc |-> "posture_done",
          resp |-> AddError(resp, "Multiple items returned from API upon filter execution!")]
    ELSE IF Len(candidates) = 0
    THEN [pc |-> "posture_done",
          resp |-> AddError(resp, "No items returned from API upon filter execution!")]
    ELSE IF source = "multi_process" /\ candidates[1].typeId # "PROCESS_MULTI"
    THEN [pc |-> "posture_panicked", resp |-> resp]
    ELSE [pc |-> "posture_set",
          resp |-> [resp EXCEPT !.State = PostureState(source, config, candidates[1])]]

\* The rest of Read: the multiple and zero tests, posture_checks[0],
\* resp.State.Set(ctx, &state).
PostureSet ==
    /\ pc = "posture_listed"
    /\ ret2' = PostureCandidates(arg.source, ret2)
    /\ state' = PostureChosen(arg.source, arg.config, ret2', state).resp
    /\ pc' = PostureChosen(arg.source, arg.config, ret2', state).pc
    /\ UNCHANGED <<arg, ret, controller>>

NextPosture == PostureList \/ PostureSet

SpecPosture == InitPosture /\ [][NextPosture]_vars

\* C28: a posture-check data-source Read writes state only for a posture check
\* that the expression built from id, name or filter selects: the expression
\* is given to the controller's list query and the entity written is never
\* another posture check of the same kind.
C28_FilterApplied ==
    (pc \in {"posture_listed", "posture_set"} =>
        ret.params.Filter = Ptr(VStr(ret.filter)))
    /\ (pc = "posture_set" => PostureMatches(ret2[1], ret.filter))

(***************************************************************************)
(* SpecValidate: ConfigValidators of the host-config resource on             *)
(* configurations over every combination of set and unset attributes.       *)
(***************************************************************************)
ValidatedConfigs ==
    { [Name |-> StringValue("host"), ConfigTypeId |-> StringNull, ID |-> StringNull,
       Address |-> ad, ForwardAddress |-> fa, Port |-> po, ForwardPort |-> fpo,
       Protocol |-> pr, ForwardProtocol |-> fpr,
       AllowedProtocols |-> ap, AllowedAddresses |-> aa,
       AllowedSourceAddresses |-> ListNull, AllowedPortRanges |-> ar,
       ListenOptions |-> ObjectNull, PortChecks |-> ListNull, HTTPChecks |-> ListNull] :
        ad \in {StringNull, StringValue("localhost")},
        fa \in BoolValues,
        po \in {Int32Null, Int32Value(5432)},
        fpo \in {BoolNull, BoolValue(TRUE)},
        pr \in {StringNull, StringValue("tcp")},
        fpr \in {BoolNull, BoolValue(TRUE)},
        ap \in {ListNull, ListValue(<<StringValue("tcp"), StringValue("udp")>>)},
        aa \in {ListNull, ListValue(<<StringValue("localhost")>>)},
        ar \in {ListNull, ListValue(<<PlannedRange(80, 443)>>)} }

InitValidate ==
    /\ pc = "config"
    /\ arg \in [config : ValidatedConfigs]
    /\ ret = None
    /\ ret2 = None
    /\ controller = None
    /\ state = None

\* The framework runs every validator ConfigValidators returns on the
\* configuration.
ValidateConfig ==
    /\ pc = "config"
    /\ ret' = ValidatorsAccept(arg.config)
    /\ pc' = IF ret' THEN "config_accepted" ELSE "config_refused"
    /\ UNCHANGED <<arg, ret2, controller, state>>

NextValidate == ValidateConfig

SpecValidate == InitValidate /\ [][NextValidate]_vars

\* C29: every configuration ConfigValidators accepts that sets a forward flag
\* also sets the flag's allow-list (forward_address with allowed_addresses,
\* forward_port with allowed_port_ranges, forward_protocol with
\* allowed_protocols), and for each of address, port and protocol exactly one
\* of the fixed attribute and its forward flag is set.
C29_ForwardNeedsAllowList ==
    pc = "config_accepted" =>
        LET m == arg.config
        IN /\ IsSet(m.ForwardAddress) => IsSet(m.AllowedAddresses)
           /\ IsSet(m.ForwardPort) => IsSet(m.AllowedPortRanges)
           /\ IsSet(m.ForwardProtocol) => IsSet(m.AllowedProtocols)
           /\ IsSet(m.Address) # IsSet(m.ForwardAddress)
           /\ IsSet(m.Port) # IsSet(m.ForwardPort)
           /\ IsSet(m.Protocol) # IsSet(m.ForwardProtocol)

(***************************************************************************)
(* SpecConfigure: ZitiProvider.Configure over configurations, environment   *)
(* values and capool texts.                                                 *)
(***************************************************************************)
EndpointURL == "https://ziti.example.com:1280"

\* capool texts: empty, not base64, base64 of bytes that are no PKCS7
\* structure, base64 of a PKCS7 certificate chain.
CaPoolTexts == {"", "not base64!", "bm90IHBrY3M3", "MIIChainOfOneCertificate"}

ProviderConfigs ==
    [Endpoint : {StringNull, StringUnknown, StringValue(EndpointURL)},
     Username : {StringNull, StringUnknown, StringValue("admin")},
     Password : {StringNull, StringValue("secret")},
     CaPool : {StringNull} \cup { StringValue(text) : text \in CaPoolTexts }]

Environments ==
    [ZITI_EDGE_MGMT_URL : {"", EndpointURL},
     ZITI_EDGE_MGMT_USERNAME : {"", "admin"},
     ZITI_EDGE_MGMT_PASSWORD : {"", "secret"},
     ZITI_EDGE_MGMT_CAPOOL : {""}]

InitConfigure ==
    /\ pc = "configure"
    /\ arg \in [config : ProviderConfigs, env : Environments,
                wellKnown : {"ok", "error"}, authenticate : {"ok", "error"}]
    /\ state = [Diagnostics |-> <<>>, DataSourceData |-> None, ResourceData |-> None]
    /\ ret = None
    /\ ret2 = None
    /\ controller = None

AddAttributeError(resp, attribute, summary) ==
    [resp EXCEPT !.Diagnostics =
        Append(@, [severity |-> "error", attribute |-> attribute, summary |-> summary])]

AddAttributeWarning(resp, attribute, summary) ==
    [resp EXCEPT !.Diagnostics =
        Append(@, [severity |-> "warning", attribute |-> attribute, summary |-> summary])]

AddProviderError(resp, summary) == AddAttributeError(resp, "", summary)

HasError(resp) ==
    \E i \in 1..Len(resp.Diagnostics) : resp.Diagnostics[i].severity = "error"

IsUnknown(v) == v.st = "unknown"

\* if config.X.IsUnknown() { resp.Diagnostics.AddAttributeError(path.Root(x), ...) }
ReportUnknown(resp, v, attribute, summary) ==
    IF IsUnknown(v) THEN AddAttributeError(resp, attribute, summary) ELSE resp

UnknownsReported(resp, config) ==
    ReportUnknown(
        ReportUnknown(
            ReportUnknown(resp, config.Endpoint, "endpoint", "Unknown Ziti Edge Management API URL"),
            config.Username, "username", "Unknown Ziti Edge Management API Username"),
        config.Password, "password", "Unknown Ziti Edge Management API Password")

\* x := os.Getenv(...); if !config.X.IsNull() { x = config.X.ValueString() }
Effective(v, fromEnv) == IF v.st # "null" THEN ValueString(v) ELSE fromEnv

EffectiveValues(config, env) ==
    [endpoint |-> Effective(config.Endpoint, env.ZITI_EDGE_MGMT_URL),
     username |-> Effective(config.Username, env.ZITI_EDGE_MGMT_USERNAME),
     password |-> Effective(config.Password, env.ZITI_EDGE_MGMT_PASSWORD),
     capool |-> Effective(config.CaPool, env.ZITI_EDGE_MGMT_CAPOOL)]

ReportMissing(resp, value, attribute, summary) ==
    IF value = "" THEN AddAttributeError(resp, attribute, summary) ELSE resp

WarnMissing(resp, value, attribute, summary) ==
    IF value = "" THEN AddAttributeWarning(resp, attribute, summary) ELSE resp

MissingReported(resp, values) ==
    WarnMissing(
        ReportMissing(
            ReportMissing(
                ReportMissing(resp, values.endpoint, "endpoint", "Missing Ziti Edge Management API URL"),
                values.username, "username", "Missing Ziti Edge Management API Username"),
            values.password, "password", "Missing Ziti Edge Management API Password"),
        values.capool, "capool",
        "Missing CA Pool value to verify, will retrieve CA Pool and trust it implicitly!")

\* Configure up to the second HasError test: the unknown tests, the
\* environment defaults and the missing-value tests.
ValuesChecked(resp, config, env) ==
    IF HasError(UnknownsReported(resp, config))
    THEN UnknownsReported(resp, config)
    ELSE MissingReported(resp, EffectiveValues(config, env))

ConfigureValues ==
    /\ pc = "configure"
    /\ state' = ValuesChecked(state, arg.config, arg.env)
    /\ ret' = IF HasError(UnknownsReported(state, arg.config))
              THEN None
              ELSE EffectiveValues(arg.config, arg.env)
    /\ pc' = IF HasError(state') THEN "configure_done" ELSE "configure_capool"
    /\ UNCHANGED <<arg, ret2, controller>>

\* base64.StdEncoding.DecodeString on the capool texts.
Base64Decode(text) ==
    IF text = "bm90IHBrY3M3" THEN [err |-> FALSE, bytes |-> "not pkcs7"]
    ELSE IF text = "MIIChainOfOneCertificate" THEN [err |-> FALSE, bytes |-> "pkcs7 chain"]
    ELSE [err |-> TRUE, bytes |-> ""]

\* pkcs7.Parse: the parsed structure, or nil and an error.
ParsePKCS7(bytes) ==
    IF bytes = "pkcs7 chain"
    THEN [err |-> FALSE, certs |-> Ptr([Certificates |-> <<"ca-1">>])]
    ELSE [err |-> TRUE, certs |-> NilPtr]

\* certs, err := pkcs7.Parse(certData); if err != nil { AddAttributeError }
\* (no return); for _, cert := range certs.Certificates { caPool.AddCert(cert) }
ParsedCaPool(resp, parsed) ==
    IF parsed.certs = NilPtr
    THEN [pc |-> "configure_panicked", caPool |-> None,
          resp |-> IF parsed.err
                   THEN AddAttributeError(resp, "capool",
                          "Unable to parse decoded base64 capool into an actual pkcs7 structure.")
                   ELSE resp]
    ELSE [pc |-> "configure_auth", caPool |-> parsed.certs.elem.Certificates, resp |-> resp]

DecodedCaPool(resp, decoded) ==
    IF decoded.err
    THEN [pc |-> "configure_done", caPool |-> None,
          resp |-> AddAttributeError(resp, "capool", "Unable to decode capool value using base64!")]
    ELSE ParsedCaPool(resp, ParsePKCS7(decoded.bytes))

\* ziti.GetControllerWellKnownCaPool(baseUrl)
WellKnownCaPool(resp, answer) ==
    IF answer = "error"
    THEN [pc |-> "configure_done", caPool |-> None,
          resp |-> AddProviderError(resp,
                     "Unable to retrieve well-known certs from ziti edge controller")]
    ELSE [pc |-> "configure_auth", caPool |-> <<"well-known-ca">>, resp |-> resp]

CaPoolFrom(resp, capool, answer) ==
    IF capool = "" THEN WellKnownCaPool(resp, answer)
    ELSE DecodedCaPool(resp, Base64Decode(capool))

\* var caPool *x509.CertPool; if capool == "" { ... } else { ... }
ConfigureCaPool ==
    /\ pc = "configure_capool"
    /\ ret2' = CaPoolFrom(state, ret.capool, arg.wellKnown)
    /\ state' = ret2'.resp
    /\ pc' = ret2'.pc
    /\ UNCHANGED <<arg, ret, controller>>

\* managementClient.Authenticate(credentials, configTypes);
\* resp.DataSourceData = managementClient; resp.ResourceData = managementClient
ManagementClient(values, caPool) ==
    [endpoint |-> values.endpoint, username |-> values.username, caPool |-> caPool]

ConfigureAuthenticate ==
    /\ pc = "configure_auth"
    /\ state' = IF arg.authenticate = "error"
                THEN AddProviderError(state, "Unable to create client for Ziti Edge Management API")
                ELSE [state EXCEPT !.DataSourceData = ManagementClient(ret, ret2.caPool),
                                   !.ResourceData = ManagementClient(ret, ret2.caPool)]
    /\ pc' = "configure_done"
    /\ UNCHANGED <<arg, ret, ret2, controller>>

NextConfigure == ConfigureValues \/ ConfigureCaPool \/ ConfigureAuthenticate

SpecConfigure == InitConfigure /\ [][NextConfigure]_vars

NoClient == state.DataSourceData = None /\ state.ResourceData = None

ErrorOn(attribute) ==
    \E i \in 1..Len(state.Diagnostics) :
        state.Diagnostics[i].severity = "error" /\ state.Diagnostics[i].attribute = attribute

ConfigureEnded == pc \in {"configure_done", "configure_panicked"}

\* C30: Configure never crashes on a bad capool: for a capool that decodes from
\* base64 but is no PKCS7 structure it returns with an error diagnostic on
\* capool and hands out no client; a missing endpoint, username or password
\* gives an error diagnostic on that attribute and no client.
C30_BadCaPoolReported ==
    /\ pc # "configure_panicked"
    /\ ConfigureEnded =>
          /\ \A attribute \in {"endpoint", "username", "password"} :
                (ret # None /\ ret[attribute] = "") => ErrorOn(attribute) /\ NoClient
          /\ (ret2 # None /\ ret.capool # "" /\ ~Base64Decode(ret.capool).err
              /\ ParsePKCS7(Base64Decode(ret.capool).bytes).err) =>
                pc = "configure_done" /\ ErrorOn("capool") /\ NoClient

Init == InitReflect
Next == NextReflect
Spec == Init /\ [][Next]_vars
====
